---- MODULE Spec2Model ----
(***************************************************************************)
(* A model of the bet computation engine of Bookielocal: number expansion  *)
(* (lib/expand.ts), entry computation, aggregation and summaries           *)
(* (lib/compute.ts), draw periods (lib/drawPeriod.ts), actual payout      *)
(* reconciliation (lib/payout.ts) and the ticket entry of the application  *)
(* store (useAppStore).                                                    *)
(*                                                                         *)
(* A string is a sequence of characters.  A character is the integer       *)
(* (UTF-16 code unit - code unit of '0'): the digits '0'..'9' are 0..9 and *)
(* every other character lies outside 0..9.  The order of the integers is  *)
(* the order of the code units, which is the order Array.prototype.sort    *)
(* uses when it is called without a comparator.                            *)
(***************************************************************************)
EXTENDS Integers, Sequences, FiniteSets, TLC

VARIABLES
    raw, category, expanded,                  \* expandNumber: its arguments, its result
    entry, settings, blockedNumbers, computed, \* computeEntryTotals: its arguments, its result
    tickets, lotteryResult, actualPayout,      \* computeActualPayout: its arguments, its result
    threshold, riskyNumbers,                   \* findRiskyNumbers: threshold, result
    newEntry, violation,                       \* checkCeilingViolation: newEntry, result
    date, perNumberMax, numberTotals,          \* getNumberTotals: date, perNumberMax, result
    agents, round, tzWest, summary,            \* computeSummary: agents, round, time zone, result
    pastTicket, recomputed,                    \* recomputeTicket: ticket, result
    entryList, merged,                         \* mergeDuplicateEntries: entries, result
    currentTicket, storeTickets,               \* useAppStore: the ticket being entered, the saved tickets
    expansionCount,                            \* getExpansionCount: result
    selectedPeriod, inPeriod,                  \* isDateInDrawPeriod: the period's anchor, result
    assignedPeriod, currentPeriod,             \* calculateDrawPeriod, getCurrentDrawPeriod: results
    syncQueue, itemCount, remote,              \* sync queue store, items ever queued, documents committed
    pushPc, pushQueue,                         \* pushLocalChanges: its position, the queue it read
    dbTickets,                                 \* db.ts: the tickets store
    undoStack, undoBefore, undoResult, steps   \* useAppStore: undo stack, ticket lists before each
                                               \* recorded action, result of undo, handlers run

expandVars == <<raw, category, expanded>>
entryVars == <<entry, settings, blockedNumbers, computed>>
payoutVars == <<tickets, lotteryResult, actualPayout>>
aggVars == <<threshold, riskyNumbers, newEntry, violation, date, perNumberMax,
             numberTotals, agents, round, tzWest, summary>>
ticketVars == <<pastTicket, recomputed, entryList, merged, currentTicket, storeTickets>>
periodVars == <<selectedPeriod, inPeriod, assignedPeriod, currentPeriod>>
syncVars == <<syncQueue, itemCount, remote, pushPc, pushQueue>>
undoVars == <<dbTickets, undoStack, undoBefore, undoResult, steps>>
extraVars == <<expansionCount, periodVars, syncVars, undoVars>>
vars == <<expandVars, entryVars, payoutVars, aggVars, ticketVars, extraVars>>

\* ---------------------------------------------------------------- bounds
\* Digits that occur in the inputs: '1' .. MaxDigit.
MaxDigit == 3
\* Longest raw string handed to expandNumber.
MaxRawLen == 3
\* Most ticket handlers and undos run in one session.
MaxUndoSteps == 3
\* Most tickets ever written to the tickets store.
MaxDbTickets == 3
\* Most local writes queued for the remote.
MaxSyncItems == 4
\* Most entries handed to mergeDuplicateEntries.
MaxMergeLen == 3
\* Most entries of the ticket being entered in the store.
MaxStoreEntries == 2
\* Unit prices 1 .. MaxUnitPrice and quantities 1 .. MaxQuantity of an entry.
MaxUnitPrice == 2
MaxQuantity == 2
\* Longest list of blocked numbers.
MaxBlocked == 2
\* Longest list of tickets handed to a function that takes tickets.
MaxTickets == 2
\* Risky thresholds 0 .. MaxThreshold.
MaxThreshold == 4
\* Per-combo ceilings 1 .. MaxCeiling.
MaxCeiling == 4
\* Longest list of tickets handed to computeSummary.
MaxSummaryTickets == 3

\* ---------------------------------------------------------- shared/schemas
Category == {"3top", "3tod", "3down", "3back", "2top", "2tod", "2down", "2back"}

CATEGORY_DIGIT_LENGTH(c) ==
    IF c \in {"3top", "3tod", "3down", "3back"} THEN 3 ELSE 2

\* ------------------------------------------------------------------ strings
Digits == 1..MaxDigit
\* The character 'a' ('a' - '0' = 49): a character that is not a digit.
LetterA == 49
Chars == Digits \cup {LetterA}

StringsOfLen(alphabet, n) == [1..n -> alphabet]
StringsUpTo(alphabet, n) == UNION {StringsOfLen(alphabet, k) : k \in 0..n}

\* s < t in the order of the code units (the default order of sort()).
RECURSIVE StrLess(_, _)
StrLess(s, t) ==
    IF t = <<>> THEN FALSE
    ELSE IF s = <<>> THEN TRUE
    ELSE IF Head(s) # Head(t) THEN Head(s) < Head(t)
    ELSE StrLess(Tail(s), Tail(t))

\* raw.split(''): the characters of s, each a string of length one.
Split(s) == [i \in 1..Len(s) |-> <<s[i]>>]

\* p.join(''): the concatenation of the strings of p.
RECURSIVE Join(_)
Join(p) == IF p = <<>> THEN <<>> ELSE Head(p) \o Join(Tail(p))

\* Insert x into the ascending list sorted, after the elements not above it.
RECURSIVE InsertSorted(_, _)
InsertSorted(x, sorted) ==
    IF sorted = <<>> THEN <<x>>
    ELSE IF StrLess(x, Head(sorted)) THEN <<x>> \o sorted
    ELSE <<Head(sorted)>> \o InsertSorted(x, Tail(sorted))

RECURSIVE InsertionSort(_)
InsertionSort(a) ==
    IF a = <<>> THEN <<>> ELSE InsertSorted(Head(a), InsertionSort(Tail(a)))

\* A sort() that leaves the array as it is.
SortOmitted(a) == a

\* Array.prototype.sort() of an array of strings, no comparator.
Sort(a) == InsertionSort(a)

\* arr without its i-th element: [...arr.slice(0, i), ...arr.slice(i + 1)].
Without(arr, i) == [j \in 1..(Len(arr) - 1) |-> IF j < i THEN arr[j] ELSE arr[j + 1]]

SeqToSet(s) == {s[i] : i \in 1..Len(s)}

\* ------------------------------------------------------------ lib/expand.ts
\* permute(arr, current) of getUniquePermutations, threading `results`
\* (`seen` holds exactly the joined keys of `results`).  PermuteFrom is the
\* for loop from index i on.
RECURSIVE permute(_, _, _), PermuteFrom(_, _, _, _)
permute(arr, current, results) ==
    IF Len(arr) = 0
    THEN IF Join(current) \in {Join(r) : r \in SeqToSet(results)}
         THEN results
         ELSE Append(results, current)
    ELSE PermuteFrom(arr, current, results, 1)

PermuteFrom(arr, current, results, i) ==
    IF i > Len(arr) THEN results
    ELSE PermuteFrom(arr, current,
                     permute(Without(arr, i), Append(current, arr[i]), results),
                     i + 1)

\* permute without the seen set: every permutation is pushed, also one
\* that was pushed before.
RECURSIVE permuteUnseen(_, _, _), PermuteUnseenFrom(_, _, _, _)
permuteUnseen(arr, current, results) ==
    IF Len(arr) = 0 THEN Append(results, current)
    ELSE PermuteUnseenFrom(arr, current, results, 1)

PermuteUnseenFrom(arr, current, results, i) ==
    IF i > Len(arr) THEN results
    ELSE PermuteUnseenFrom(arr, current,
                           permuteUnseen(Without(arr, i), Append(current, arr[i]), results),
                           i + 1)

getAllPermutations(chars) == permuteUnseen(chars, <<>>, <<>>)

getUniquePermutations(chars) == permute(chars, <<>>, <<>>)

\* The length check comes before the digit check.
validateLengthFirst(r, c) ==
    IF Len(r) # CATEGORY_DIGIT_LENGTH(c) THEN "InvalidLength"
    ELSE IF ~(Len(r) >= 1 /\ \A i \in 1..Len(r) : r[i] \in 0..9) THEN "InvalidFormat"
    ELSE "ok"

\* validateNumber: "ok", or the error it throws.
validateNumber(r, c) ==
    IF ~(Len(r) >= 1 /\ \A i \in 1..Len(r) : r[i] \in 0..9) THEN "InvalidFormat"
    ELSE IF Len(r) # CATEGORY_DIGIT_LENGTH(c) THEN "InvalidLength"
    ELSE "ok"

\* expandNumber: [ok |-> TRUE, combos |-> ...] or [ok |-> FALSE, error |-> ...].
expandNumber(r, c) ==
    IF validateNumber(r, c) # "ok"
    THEN [ok |-> FALSE, error |-> validateNumber(r, c)]
    ELSE IF c = "3tod"
    THEN LET permutations == getUniquePermutations(Split(r))
         IN [ok |-> TRUE,
             combos |-> Sort([i \in 1..Len(permutations) |-> Join(permutations[i])])]
    ELSE IF c = "2tod"
    THEN LET swapped == <<r[2]>> \o <<r[1]>>
         IN IF r = swapped
            THEN [ok |-> TRUE, combos |-> <<r>>]
            ELSE [ok |-> TRUE, combos |-> Sort(<<r, swapped>>)]
    ELSE [ok |-> TRUE, combos |-> <<r>>]

\* The number of different characters of r: new Set(raw.split('')).size
uniqueSize(r) == Cardinality(SeqToSet(r))

\* Three digits always count as six arrangements.
expansionCountByLength(r, c) ==
    IF c = "3tod" THEN 6 ELSE IF c = "2tod" THEN 2 ELSE 1

\* getExpansionCount.  raw[0] === raw[1] compares undefined with undefined
\* on the empty string and a character with undefined on a single one.
getExpansionCount(r, c) ==
    IF c = "3tod"
    THEN IF uniqueSize(r) = 1 THEN 1
         ELSE IF uniqueSize(r) = 2 THEN 3
         ELSE 6
    ELSE IF c = "2tod"
    THEN IF Len(r) = 0 \/ (Len(r) >= 2 /\ r[1] = r[2]) THEN 1 ELSE 2
    ELSE 1

\* ----------------------------------------------------------- lib/compute.ts
\* blockedNumbers.find(b => b.number === combo && b.category === category
\* && b.enabled): the index of the first match, 0 when there is none.
RECURSIVE FindFrom(_, _, _, _)
FindFrom(combo, c, blocked, i) ==
    IF i > Len(blocked) THEN 0
    ELSE IF blocked[i].number = combo /\ blocked[i].category = c /\ blocked[i].enabled
    THEN i
    ELSE FindFrom(combo, c, blocked, i + 1)

findBlockedNumber(combo, c, blocked) == FindFrom(combo, c, blocked, 1)

\* blocked?.payoutOverride || settings.payouts[entry.category]: an override
\* of 0 is falsy and falls through to the default rate.
payoutRateFalsy(combo, c, stg, blocked) ==
    LET b == findBlockedNumber(combo, c, blocked)
    IN IF b # 0 /\ blocked[b].payoutOverride # 0
       THEN blocked[b].payoutOverride
       ELSE stg.payouts[c]

\* blocked?.payoutOverride ?? settings.payouts[entry.category]
payoutRateOf(combo, c, stg, blocked) ==
    LET b == findBlockedNumber(combo, c, blocked)
    IN IF b # 0 THEN blocked[b].payoutOverride ELSE stg.payouts[c]

\* A sold amount that forgets the quantity.
soldAmountUnitOnly(e) == e.unitPrice

\* const soldAmount = entry.unitPrice * entry.quantity
soldAmountOf(e) == e.unitPrice * e.quantity

RECURSIVE SumSoldAmount(_)
SumSoldAmount(pcts) ==
    IF pcts = <<>> THEN 0 ELSE Head(pcts).soldAmount + SumSoldAmount(Tail(pcts))

\* A total that charges every combo of every category.
entryTotalPerCombo(e, perComboTotals) == SumSoldAmount(perComboTotals)

\* const total = isTodCategory ? unitPrice * quantity : perComboTotals.reduce(...)
entryTotal(e, perComboTotals) ==
    LET isTodCategory == e.category = "3tod" \/ e.category = "2tod"
    IN IF isTodCategory
       THEN e.unitPrice * e.quantity
       ELSE SumSoldAmount(perComboTotals)

\* computeEntryTotals: the entry with expanded, perComboTotals and total, or
\* the error expandNumber throws.
computeEntryTotals(e, stg, blocked) ==
    LET x == expandNumber(e.raw, e.category)
    IN IF ~x.ok THEN x
       ELSE LET perComboTotals ==
                    [i \in 1..Len(x.combos) |->
                        [combo |-> x.combos[i],
                         unitPrice |-> e.unitPrice,
                         quantity |-> e.quantity,
                         soldAmount |-> soldAmountOf(e),
                         payoutRate |-> payoutRateOf(x.combos[i], e.category, stg, blocked)]]
                total == entryTotal(e, perComboTotals)
            IN [ok |-> TRUE,
                id |-> e.id, category |-> e.category, raw |-> e.raw,
                unitPrice |-> e.unitPrice, quantity |-> e.quantity,
                expanded |-> x.combos,
                perComboTotals |-> perComboTotals,
                total |-> total]

\* ------------------------------------------------------------ lib/payout.ts
\* The value of an optional field that is absent (undefined).
Undefined == <<-1>>

\* s.slice(-n): the last n characters of s, all of s when it is shorter.
SliceLast(s, n) ==
    IF Len(s) <= n THEN s ELSE [i \in 1..n |-> s[Len(s) - n + i]]

\* const twoTop = threeTop ? threeTop.slice(-2) : ""
twoTopOf(result) ==
    IF result.threeTop # Undefined /\ result.threeTop # <<>>
    THEN SliceLast(result.threeTop, 2)
    ELSE <<>>

\* An isWin without the 3tod case: a tod combo falls to the default.
isWinTodOmitted(combo, c, result) ==
    CASE c = "3top" -> result.threeTop = combo
      [] c = "2top" -> twoTopOf(result) = combo
      [] c = "2down" -> result.twoDown = combo
      [] c = "3down" -> (result.threeTod3 = combo) \/ (result.threeTod4 = combo)
      [] OTHER -> FALSE

\* isWin(combo, category) of computeActualPayout.
isWin(combo, c, result) ==
    CASE c \in {"3top", "3tod"} -> result.threeTop = combo
      [] c = "2top" -> twoTopOf(result) = combo
      [] c = "2down" -> result.twoDown = combo
      [] c = "3down" -> (result.threeTod3 = combo) \/ (result.threeTod4 = combo)
      [] OTHER -> FALSE

\* A deleted check that lets every ticket through.
isSkippedNever(ticket) == FALSE

\* if (ticket.deleted) continue
isSkipped(ticket) == ticket.deleted

\* The inner loop over entry.perComboTotals, from item i on.
RECURSIVE PayoutOfItems(_, _, _, _)
PayoutOfItems(items, c, result, i) ==
    IF i > Len(items) THEN 0
    ELSE (IF isWin(items[i].combo, c, result)
          THEN items[i].payoutRate * items[i].unitPrice * items[i].quantity
          ELSE 0)
         + PayoutOfItems(items, c, result, i + 1)

\* The loop over ticket.entries, from entry i on; an entry without
\* perComboTotals is skipped.
RECURSIVE PayoutOfEntries(_, _, _)
PayoutOfEntries(entries, result, i) ==
    IF i > Len(entries) THEN 0
    ELSE (IF "perComboTotals" \notin DOMAIN entries[i] THEN 0
          ELSE PayoutOfItems(entries[i].perComboTotals, entries[i].category, result, 1))
         + PayoutOfEntries(entries, result, i + 1)

\* The loop over tickets, from ticket i on.
RECURSIVE PayoutOfTickets(_, _, _)
PayoutOfTickets(ts, result, i) ==
    IF i > Len(ts) THEN 0
    ELSE (IF isSkipped(ts[i]) THEN 0 ELSE PayoutOfEntries(ts[i].entries, result, 1))
         + PayoutOfTickets(ts, result, i + 1)

\* The result argument when there is none (null).
NoResult == [isNull |-> TRUE]

computeActualPayout(ts, result) ==
    IF result = NoResult THEN 0 ELSE PayoutOfTickets(ts, result, 1)

\* -------------------------------------------------------- lib/drawPeriod.ts
\* A calendar date 'YYYY-MM-DD': year, month 1..12, day of month.
Date(year, month, day) == [y |-> year, m |-> month, d |-> day]

DaysInMonth(year, month) ==
    IF month = 2
    THEN (IF year % 4 = 0 /\ (year % 100 # 0 \/ year % 400 = 0) THEN 29 ELSE 28)
    ELSE IF month \in {4, 6, 9, 11} THEN 30 ELSE 31

PrevDay(dt) ==
    IF dt.d > 1 THEN Date(dt.y, dt.m, dt.d - 1)
    ELSE IF dt.m > 1 THEN Date(dt.y, dt.m - 1, DaysInMonth(dt.y, dt.m - 1))
    ELSE Date(dt.y - 1, 12, 31)

\* new Date('YYYY-MM-DD') is midnight UTC; getDate(), getMonth() and
\* getFullYear() read it in local time: the same calendar day at UTC and
\* east of it, the day before in a time zone west of UTC.
LocalDate(dt, west) == IF west THEN PrevDay(dt) ELSE dt

isDateInDrawPeriod(ticketDate, drawPeriodId, west) ==
    LET t == LocalDate(ticketDate, west)
        dp == LocalDate(drawPeriodId, west)
        prevMonth == IF dp.m = 1 THEN 12 ELSE dp.m - 1
        prevYear == IF dp.m = 1 THEN dp.y - 1 ELSE dp.y
    IN IF dp.d = 1
       THEN \/ (t.y = prevYear /\ t.m = prevMonth /\ t.d >= 18)
            \/ (t.y = dp.y /\ t.m = dp.m /\ t.d = 1)
       ELSE IF dp.d = 16
       THEN t.y = dp.y /\ t.m = dp.m /\ t.d >= 2 /\ t.d <= 17
       ELSE FALSE

\* The period of a date whose day of month is read as `day`: the 1st of the
\* next month from the 18th on, the 1st of this month on the 1st, the 16th
\* of this month otherwise.
periodOfDay(year, month, day) ==
    IF day >= 18
    THEN [period |-> "1",
          id |-> Date(IF month = 12 THEN year + 1 ELSE year,
                      IF month = 12 THEN 1 ELSE month + 1, 1)]
    ELSE IF day <= 1
    THEN [period |-> "1", id |-> Date(year, month, 1)]
    ELSE [period |-> "16", id |-> Date(year, month, 16)]

\* getCurrentDrawPeriod when new Date() is a moment of the local day `today`.
getCurrentDrawPeriod(today) == periodOfDay(today.y, today.m, today.d)

\* calculateDrawPeriod of the ticket entry form: period and drawDate.
calculateDrawPeriod(dateStr, west) ==
    LET dt == LocalDate(dateStr, west)
    IN periodOfDay(dt.y, dt.m, dt.d)

\* ------------------------------------------------ lib/compute.ts: tickets
\* entries.reduce((sum, entry) => sum + (entry.total ?? 0), 0)
RECURSIVE SumTotals(_)
SumTotals(es) ==
    IF es = <<>> THEN 0
    ELSE (IF "total" \in DOMAIN Head(es) THEN Head(es).total ELSE 0) + SumTotals(Tail(es))

computeTicketTotal(t) == SumTotals(t.entries)

\* ------------------------------------------- lib/compute.ts: aggregation
\* A Map is the list of its entries [key, value] in insertion order.
\* MapIndex is the position of key in the map m, 0 when it has none.
RECURSIVE MapIndexFrom(_, _, _)
MapIndexFrom(m, key, i) ==
    IF i > Len(m) THEN 0
    ELSE IF m[i].key = key THEN i
    ELSE MapIndexFrom(m, key, i + 1)

MapIndex(m, key) == MapIndexFrom(m, key, 1)

\* The key `${category}:${combo}`: a category holds no ':' and a combo only
\* digits, so the key determines the pair and is kept as the pair.
ComboKey(c, combo) == <<c, ":", combo>>

\* The body of the innermost loop of aggregateComboSales for one comboTotal.
AggregateItem(m, c, comboTotal) ==
    LET key == ComboKey(c, comboTotal.combo)
        existing == MapIndex(m, key)
    IN IF existing # 0
       THEN [m EXCEPT ![existing].value.soldAmount = @ + comboTotal.soldAmount]
       ELSE Append(m, [key |-> key,
                       value |-> [combo |-> comboTotal.combo,
                                  category |-> c,
                                  soldAmount |-> comboTotal.soldAmount]])

RECURSIVE AggregateItems(_, _, _, _)
AggregateItems(m, c, items, i) ==
    IF i > Len(items) THEN m
    ELSE AggregateItems(AggregateItem(m, c, items[i]), c, items, i + 1)

\* The loop over ticket.entries; an entry without perComboTotals is skipped.
RECURSIVE AggregateEntries(_, _, _)
AggregateEntries(m, es, i) ==
    IF i > Len(es) THEN m
    ELSE AggregateEntries(
             IF "perComboTotals" \notin DOMAIN es[i] THEN m
             ELSE AggregateItems(m, es[i].category, es[i].perComboTotals, 1),
             es, i + 1)

\* The loop over tickets; a deleted ticket is skipped.
RECURSIVE AggregateTickets(_, _, _)
AggregateTickets(m, ts, i) ==
    IF i > Len(ts) THEN m
    ELSE AggregateTickets(
             IF ts[i].deleted THEN m ELSE AggregateEntries(m, ts[i].entries, 1),
             ts, i + 1)

aggregateComboSales(ts) == AggregateTickets(<<>>, ts, 1)

\* Array.prototype.sort((a, b) => b[f] - a[f]): stable, descending by field f.
RECURSIVE InsertDescBy(_, _, _)
InsertDescBy(x, sorted, f) ==
    IF sorted = <<>> THEN <<x>>
    ELSE IF Head(sorted)[f] <= x[f] THEN <<x>> \o sorted
    ELSE <<Head(sorted)>> \o InsertDescBy(x, Tail(sorted), f)

RECURSIVE SortDescBy(_, _)
SortDescBy(a, f) ==
    IF a = <<>> THEN <<>> ELSE InsertDescBy(Head(a), SortDescBy(Tail(a), f), f)

\* A threshold test that also reports an amount equal to the threshold.
reachesThreshold(amount, limit) == amount >= limit

\* data.soldAmount > threshold
exceedsThreshold(amount, limit) == amount > limit

\* The loop of findRiskyNumbers over the map entries, from entry i on.
RECURSIVE RiskyFrom(_, _, _)
RiskyFrom(comboSales, limit, i) ==
    IF i > Len(comboSales) THEN <<>>
    ELSE (IF exceedsThreshold(comboSales[i].value.soldAmount, limit)
          THEN <<[combo |-> comboSales[i].value.combo,
                  category |-> comboSales[i].value.category,
                  soldAmount |-> comboSales[i].value.soldAmount,
                  threshold |-> limit]>>
          ELSE <<>>)
         \o RiskyFrom(comboSales, limit, i + 1)

findRiskyNumbers(ts, limit) ==
    SortDescBy(RiskyFrom(aggregateComboSales(ts), limit, 1), "soldAmount")

\* The value null.
Null == [isNull |-> TRUE]

\* A ceiling test that also reports an amount equal to the ceiling.
atOrOverComboMax(amount, max) == amount >= max

\* currentAmount > settings.ceilings.perComboMax
overComboMax(amount, max) == amount > max

\* The loop of checkCeilingViolation over newEntry.perComboTotals, from
\* item i on.
RECURSIVE CeilingFrom(_, _, _, _)
CeilingFrom(comboSales, ne, stg, i) ==
    IF i > Len(ne.perComboTotals) THEN Null
    ELSE LET comboTotal == ne.perComboTotals[i]
             existing == MapIndex(comboSales, ComboKey(ne.category, comboTotal.combo))
             currentAmount ==
                 (IF existing # 0 THEN comboSales[existing].value.soldAmount ELSE 0)
                 + comboTotal.soldAmount
         IN IF overComboMax(currentAmount, stg.ceilings.perComboMax)
            THEN [violated |-> TRUE,
                  combo |-> comboTotal.combo,
                  currentAmount |-> currentAmount,
                  maxAmount |-> stg.ceilings.perComboMax]
            ELSE CeilingFrom(comboSales, ne, stg, i + 1)

checkCeilingViolation(ts, ne, stg) ==
    LET comboSales == aggregateComboSales(ts)
    IN IF "perComboTotals" \notin DOMAIN ne THEN Null
       ELSE CeilingFrom(comboSales, ne, stg, 1)

\* The key `${entry.category}-${num}`, kept as the pair it determines.
NumberKey(c, num) == <<c, "-", num>>

\* entry.perComboTotals?.find((p) => p.combo === num)?.soldAmount ?? entry.unitPrice
RECURSIVE FindComboFrom(_, _, _)
FindComboFrom(items, num, i) ==
    IF i > Len(items) THEN 0
    ELSE IF items[i].combo = num THEN i
    ELSE FindComboFrom(items, num, i + 1)

perComboAmount(e, num) ==
    IF "perComboTotals" \notin DOMAIN e THEN e.unitPrice
    ELSE LET i == FindComboFrom(e.perComboTotals, num, 1)
         IN IF i = 0 THEN e.unitPrice ELSE e.perComboTotals[i].soldAmount

\* A ceiling flag that needs the total to go over perNumberMax.
overNumberMax(total, max) == total > max

\* totalAmount >= perNumberMax
reachesNumberMax(total, max) == total >= max

\* The body of the innermost loop of getNumberTotals for one num of entry e.
TotalsItem(m, e, num, max) ==
    LET key == NumberKey(e.category, num)
        existing == MapIndex(m, key)
    IN IF existing # 0
       THEN LET sum == m[existing].value.totalAmount + perComboAmount(e, num)
            IN [m EXCEPT ![existing].value.totalAmount = sum,
                         ![existing].value.exceedsCeiling = reachesNumberMax(sum, max)]
       ELSE Append(m, [key |-> key,
                       value |-> [number |-> num,
                                  category |-> e.category,
                                  totalAmount |-> perComboAmount(e, num),
                                  exceedsCeiling |->
                                      reachesNumberMax(perComboAmount(e, num), max)]])

\* entry.expanded || [entry.raw]
expandedOrRaw(e) == IF "expanded" \in DOMAIN e THEN e.expanded ELSE <<e.raw>>

RECURSIVE TotalsItems(_, _, _, _)
TotalsItems(m, e, max, i) ==
    IF i > Len(expandedOrRaw(e)) THEN m
    ELSE TotalsItems(TotalsItem(m, e, expandedOrRaw(e)[i], max), e, max, i + 1)

RECURSIVE TotalsEntries(_, _, _, _)
TotalsEntries(m, es, max, i) ==
    IF i > Len(es) THEN m
    ELSE TotalsEntries(TotalsItems(m, es[i], max, 1), es, max, i + 1)

\* The loop over the tickets that pass !t.deleted && t.date === date.
RECURSIVE TotalsTickets(_, _, _, _, _)
TotalsTickets(m, ts, d, max, i) ==
    IF i > Len(ts) THEN m
    ELSE TotalsTickets(
             IF ~ts[i].deleted /\ ts[i].date = d
             THEN TotalsEntries(m, ts[i].entries, max, 1)
             ELSE m,
             ts, d, max, i + 1)

getNumberTotals(ts, d, max) == TotalsTickets(<<>>, ts, d, max, 1)

\* --------------------------------------------- lib/compute.ts: summaries
\* An expected payout that counts one combo of the entry, as if only one
\* of them could win.
expectedPayoutOneCombo(e) ==
    IF "perComboTotals" \notin DOMAIN e \/ e.perComboTotals = <<>> THEN 0
    ELSE e.perComboTotals[1].payoutRate * e.perComboTotals[1].unitPrice
             * e.perComboTotals[1].quantity

RECURSIVE SumExpected(_)
SumExpected(items) ==
    IF items = <<>> THEN 0
    ELSE Head(items).payoutRate * Head(items).unitPrice * Head(items).quantity
         + SumExpected(Tail(items))

computeEntryExpectedPayout(e) ==
    IF "perComboTotals" \notin DOMAIN e THEN 0 ELSE SumExpected(e.perComboTotals)

RECURSIVE SumEntryExpected(_)
SumEntryExpected(es) ==
    IF es = <<>> THEN 0
    ELSE computeEntryExpectedPayout(Head(es)) + SumEntryExpected(Tail(es))

computeTicketExpectedPayout(t) == SumEntryExpected(t.entries)

\* A filter that knows the draw-period range only.
retainsInPeriodOnly(t, d, rnd, west) ==
    /\ ~t.deleted
    /\ isDateInDrawPeriod(t.date, d, west)
    /\ ~(rnd # "" /\ t.round # rnd)

\* The predicate of tickets.filter in computeSummary; an absent round and
\* an empty one are both falsy and are the empty string here.
retains(t, d, rnd, west) ==
    /\ ~t.deleted
    /\ ~(~isDateInDrawPeriod(t.date, d, west) /\ t.date # d)
    /\ ~(rnd # "" /\ t.round # rnd)

RECURSIVE FilterTickets(_, _, _, _)
FilterTickets(ts, d, rnd, west) ==
    IF ts = <<>> THEN <<>>
    ELSE (IF retains(Head(ts), d, rnd, west) THEN <<Head(ts)>> ELSE <<>>)
         \o FilterTickets(Tail(ts), d, rnd, west)

RECURSIVE SumGross(_)
SumGross(ts) == IF ts = <<>> THEN 0 ELSE Head(ts).billTotal + SumGross(Tail(ts))

RECURSIVE SumTicketExpected(_)
SumTicketExpected(ts) ==
    IF ts = <<>> THEN 0
    ELSE computeTicketExpectedPayout(Head(ts)) + SumTicketExpected(Tail(ts))

\* The agent aggregation of the loop over filteredTickets, from ticket i on.
RECURSIVE AgentTotalsFrom(_, _, _)
AgentTotalsFrom(m, ts, i) ==
    IF i > Len(ts) THEN m
    ELSE LET existing == MapIndex(m, ts[i].agentId)
             ticketGross == ts[i].billTotal
             ticketExpectedPayout == computeTicketExpectedPayout(ts[i])
         IN AgentTotalsFrom(
                IF existing # 0
                THEN [m EXCEPT ![existing].value =
                         [gross |-> @.gross + ticketGross,
                          expectedPayout |-> @.expectedPayout + ticketExpectedPayout,
                          ticketCount |-> @.ticketCount + 1]]
                ELSE Append(m, [key |-> ts[i].agentId,
                                value |-> [gross |-> ticketGross,
                                           expectedPayout |-> ticketExpectedPayout,
                                           ticketCount |-> 1]]),
                ts, i + 1)

\* agents.find((a) => a.id === agentId)?.name ?? 'Unknown'
RECURSIVE AgentNameFrom(_, _, _)
AgentNameFrom(as, agentId, i) ==
    IF i > Len(as) THEN "Unknown"
    ELSE IF as[i].id = agentId THEN as[i].name
    ELSE AgentNameFrom(as, agentId, i + 1)

\* A perAgent list left in the order of the map.
perAgentUnsorted(perAgent) == perAgent

\* perAgent.sort((a, b) => b.gross - a.gross)
perAgentSorted(perAgent) == SortDescBy(perAgent, "gross")

computeSummary(ts, stg, as, d, rnd, west) ==
    LET filteredTickets == FilterTickets(ts, d, rnd, west)
        gross == SumGross(filteredTickets)
        expectedPayout == SumTicketExpected(filteredTickets)
        agentTotals == AgentTotalsFrom(<<>>, filteredTickets, 1)
        perAgent ==
            [i \in 1..Len(agentTotals) |->
                [agentId |-> agentTotals[i].key,
                 agentName |-> AgentNameFrom(as, agentTotals[i].key, 1),
                 gross |-> agentTotals[i].value.gross,
                 expectedPayout |-> agentTotals[i].value.expectedPayout,
                 profit |-> agentTotals[i].value.gross - agentTotals[i].value.expectedPayout,
                 ticketCount |-> agentTotals[i].value.ticketCount]]
    IN [date |-> d,
        round |-> rnd,
        gross |-> gross,
        expectedPayout |-> expectedPayout,
        profit |-> gross - expectedPayout,
        ticketCount |-> Len(filteredTickets),
        perAgent |-> perAgentSorted(perAgent),
        riskyNumbers |-> findRiskyNumbers(filteredTickets, stg.riskyThreshold)]

\* ------------------------------------------------------------------ inputs
DEFAULT_PAYOUTS ==
    [c \in Category |->
        CASE c = "3top" -> 800 [] c = "3tod" -> 130 [] c = "3down" -> 400
          [] c = "3back" -> 130 [] c = "2top" -> 70 [] c = "2tod" -> 35
          [] c = "2down" -> 70 [] c = "2back" -> 35]

DEFAULT_SETTINGS ==
    [payouts |-> DEFAULT_PAYOUTS,
     ceilings |-> [perComboMax |-> 10000, perNumberMax |-> 50000],
     riskyThreshold |-> 5000,
     mergeDuplicates |-> TRUE]

\* The settings after an administrator lowered every payout rate.
LoweredSettings ==
    [DEFAULT_SETTINGS EXCEPT !.payouts = [c \in Category |-> DEFAULT_PAYOUTS[c] - 5]]

SettingsChoices == {DEFAULT_SETTINGS, LoweredSettings}

\* The raw strings that validateNumber accepts for category c.
ValidRaws(c) == StringsOfLen(Digits, CATEGORY_DIGIT_LENGTH(c))

\* The blocked numbers an administrator has entered: overrides of the number
\* with the digits MaxDigit..1 in descending order ('321').
BlockedPool ==
    LET n == [i \in 1..3 |-> MaxDigit + 1 - i]
    IN {[number |-> n, category |-> "3tod", payoutOverride |-> 50, enabled |-> TRUE],
        [number |-> n, category |-> "3tod", payoutOverride |-> 0, enabled |-> TRUE],
        [number |-> n, category |-> "3tod", payoutOverride |-> 10, enabled |-> FALSE],
        [number |-> n, category |-> "3top", payoutOverride |-> 10, enabled |-> TRUE]}

NotCalled == [ok |-> FALSE, error |-> "not called"]

\* A stored entry: what computeEntryTotals returned for e.
StoredEntry(e, stg, blocked) ==
    LET x == computeEntryTotals(e, stg, blocked)
    IN [id |-> x.id, category |-> x.category, raw |-> x.raw,
        unitPrice |-> x.unitPrice, quantity |-> x.quantity,
        expanded |-> x.expanded, perComboTotals |-> x.perComboTotals,
        total |-> x.total]

\* A ticket of one entry.
TicketOf(e, isDeleted) == [deleted |-> isDeleted, entries |-> <<e>>, billTotal |-> e.total]

LotteryResult(first, top, down, tod3, tod4) ==
    [firstPrize |-> first, threeTop |-> top, twoDown |-> down,
     threeTod3 |-> tod3, threeTod4 |-> tod4]

Reverse(s) == [i \in 1..Len(s) |-> s[Len(s) + 1 - i]]

\* The numbers bet on and drawn in the reconciliation of a ticket list.
BetThree == <<1, 2, 3>>
BetTwo == <<2, 3>>

\* The stored entry of category c on BetThree or BetTwo, at the highest unit
\* price and quantity.
PayoutEntry(c) ==
    StoredEntry([id |-> 1, category |-> c,
                 raw |-> IF CATEGORY_DIGIT_LENGTH(c) = 3 THEN BetThree ELSE BetTwo,
                 unitPrice |-> MaxUnitPrice, quantity |-> MaxQuantity],
                DEFAULT_SETTINGS, <<>>)

\* A 3top entry on BetThree that was stored without its computed fields.
BareEntry ==
    [id |-> 1, category |-> "3top", raw |-> BetThree,
     unitPrice |-> MaxUnitPrice, quantity |-> MaxQuantity]

\* One single-entry ticket per category, live or soft-deleted, one live
\* ticket per category whose second entry is a 3tod bet, and one live
\* ticket whose entry has no perComboTotals.
PayoutTickets ==
    {TicketOf(PayoutEntry(c), d) : c \in Category, d \in BOOLEAN}
    \cup {[deleted |-> FALSE, entries |-> <<BareEntry>>, billTotal |-> 0]}
    \cup {[deleted |-> FALSE,
           entries |-> <<PayoutEntry(c), PayoutEntry("3tod")>>,
           billTotal |-> PayoutEntry(c).total + PayoutEntry("3tod").total] :
              c \in Category}

\* Results in which a number is absent, the number bet on, or its reverse.
PayoutResults ==
    {LotteryResult(Undefined, top, down, tod3, tod4) :
        top \in {Undefined, BetThree, Reverse(BetThree)},
        down \in {Undefined, BetTwo, Reverse(BetTwo)},
        tod3 \in {Undefined, BetThree, Reverse(BetThree)},
        tod4 \in {Undefined, BetThree}}

\* The first prize whose last three digits are s.
FirstPrizeOf(s) == <<1, 1, 1>> \o s

\* Results of a draw of threeTop s: with threeTop alone, with firstPrize
\* alone, with both, and with neither.
WinResults ==
    {LotteryResult(Undefined, Undefined, Undefined, Undefined, Undefined)}
    \cup {LotteryResult(Undefined, s, Undefined, Undefined, Undefined) :
              s \in StringsOfLen(Digits, 3)}
    \cup {LotteryResult(FirstPrizeOf(s), Undefined, Undefined, Undefined, Undefined) :
              s \in StringsOfLen(Digits, 3)}
    \cup {LotteryResult(FirstPrizeOf(s), s, Undefined, Undefined, Undefined) :
              s \in StringsOfLen(Digits, 3)}

\* No blocked number, or one enabled override of a 3tod combo.
WinBlocked ==
    {<<>>} \cup {<<b>> : b \in {x \in BlockedPool :
                                   x.enabled /\ x.category = "3tod" /\ x.payoutOverride # 0}}

NotComputed == -1

\* The value a function returned, as the state keeps it.
Returned(v) == [ok |-> TRUE, value |-> v]

\* ------------------------------------- lib/compute.ts: recompute and merge
\* The first error computeEntryTotals throws over the entries es, in order.
RECURSIVE FirstError(_, _, _)
FirstError(es, stg, blocked) ==
    IF es = <<>> THEN [ok |-> TRUE]
    ELSE LET x == computeEntryTotals(Head(es), stg, blocked)
         IN IF ~x.ok THEN x ELSE FirstError(Tail(es), stg, blocked)

\* An entry that has its derived fields keeps them.
recomputedEntryIfMissing(e, stg, blocked) ==
    IF "perComboTotals" \in DOMAIN e THEN e ELSE StoredEntry(e, stg, blocked)

\* ticket.entries.map(entry => computeEntryTotals(entry, settings, blockedNumbers))
recomputedEntry(e, stg, blocked) == StoredEntry(e, stg, blocked)

\* The bill total the ticket already carries.
billTotalKept(t, updatedEntries) == t.billTotal

\* updatedEntries.reduce((sum, entry) => sum + (entry.total ?? 0), 0)
billTotalOf(t, updatedEntries) == SumTotals(updatedEntries)

\* recomputeTicket: the ticket with every entry recomputed and the bill total
\* summed again, or the error the first invalid entry throws.
recomputeTicket(t, stg, blocked) ==
    LET err == FirstError(t.entries, stg, blocked)
    IN IF ~err.ok THEN err
       ELSE LET updatedEntries ==
                    [i \in 1..Len(t.entries) |-> recomputedEntry(t.entries[i], stg, blocked)]
            IN Returned([t EXCEPT !.entries = updatedEntries,
                                  !.billTotal = billTotalOf(t, updatedEntries)])

\* `${entry.category}:${entry.raw}`
MergeKey(e) == <<e.category, ":", e.raw>>

\* entry.total ?? 0
totalOrZero(e) == IF "total" \in DOMAIN e THEN e.total ELSE 0

\* The merged entry keeps the total of the first entry of its key.
mergedTotalFirst(existing, e) == totalOrZero(existing)

\* (existing.total ?? 0) + (entry.total ?? 0)
mergedTotal(existing, e) == totalOrZero(existing) + totalOrZero(e)

\* One step of the loop of mergeDuplicateEntries over the map m.
MergeEntry(m, e) ==
    LET k == MapIndex(m, MergeKey(e))
    IN IF k > 0
       THEN LET existing == m[k].value
            IN [m EXCEPT ![k].value =
                    [f \in DOMAIN existing \cup {"total"} |->
                        IF f = "quantity" THEN existing.quantity + e.quantity
                        ELSE IF f = "total" THEN mergedTotal(existing, e)
                        ELSE existing[f]]]
       ELSE Append(m, [key |-> MergeKey(e), value |-> e])

RECURSIVE MergeFrom(_, _)
MergeFrom(m, es) ==
    IF es = <<>> THEN m ELSE MergeFrom(MergeEntry(m, Head(es)), Tail(es))

\* mergeDuplicateEntries: Array.from(merged.values())
mergeDuplicateEntries(es) ==
    LET m == MergeFrom(<<>>, es)
    IN [i \in 1..Len(m) |-> m[i].value]

\* -------------------------------------------------- store: current ticket
\* initCurrentTicket
initCurrentTicket(agentId, rnd, d, drawPeriod) ==
    [agentId |-> agentId, round |-> rnd, date |-> d, drawPeriod |-> drawPeriod,
     entries |-> <<>>]

\* uuidv4(): an id that no entry of es has.
FreshId(es) ==
    CHOOSE n \in 1..(Len(es) + 1) : \A i \in 1..Len(es) : es[i].id # n

\* findIndex(e => e.category === category && e.raw === raw) from position
\* i on, 0 for -1.
RECURSIVE FindDuplicateFrom(_, _, _, _)
FindDuplicateFrom(es, c, r, i) ==
    IF i > Len(es) THEN 0
    ELSE IF es[i].category = c /\ es[i].raw = r THEN i
    ELSE FindDuplicateFrom(es, c, r, i + 1)

\* findIndex(e => e.id === entryId) from position i on, 0 for -1.
RECURSIVE FindIdFrom(_, _, _)
FindIdFrom(es, entryId, i) ==
    IF i > Len(es) THEN 0
    ELSE IF es[i].id = entryId THEN i
    ELSE FindIdFrom(es, entryId, i + 1)

\* The entry addEntry builds for a 2top or 2down bet with withReverse: raw
\* and its reverse, sorted, each at the full stake, charged once.
ReverseEntry(c, r, p, q, stg, blocked) ==
    LET reversed == <<r[2]>> \o <<r[1]>>
        exp == IF r = reversed THEN <<r>> ELSE Sort(<<r, reversed>>)
    IN [id |-> 1, category |-> c, raw |-> r, unitPrice |-> p, quantity |-> q,
        expanded |-> exp,
        perComboTotals |->
            [i \in 1..Len(exp) |->
                [combo |-> exp[i], unitPrice |-> p, quantity |-> q,
                 soldAmount |-> p * q,
                 payoutRate |-> payoutRateOf(exp[i], c, stg, blocked)]],
        total |-> p * q]

\* The entry addEntry builds before it looks for a duplicate: the custom
\* expansion with withReverse on a two-character 2top or 2down bet, the
\* result of computeEntryTotals otherwise (an error when it throws).
builtEntry(id, c, r, p, q, withReverse, stg, blocked) ==
    IF withReverse /\ c \in {"2top", "2down"} /\ Len(r) = 2
    THEN [ReverseEntry(c, r, p, q, stg, blocked) EXCEPT !.id = id] @@ [ok |-> TRUE]
    ELSE computeEntryTotals([id |-> id, category |-> c, raw |-> r,
                             unitPrice |-> p, quantity |-> q], stg, blocked)

\* The record x without its field ok.
EntryOf(x) == [f \in DOMAIN x \ {"ok"} |-> x[f]]

\* addEntry: the entries of the current ticket after the call.  A throw
\* inside the try block leaves them as they were.
addEntry(es, c, r, p, q, withReverse, stg, blocked) ==
    LET built == builtEntry(FreshId(es), c, r, p, q, withReverse, stg, blocked)
        existingIndex == FindDuplicateFrom(es, c, r, 1)
    IN IF ~built.ok THEN es
       ELSE IF stg.mergeDuplicates /\ existingIndex > 0
       THEN LET existing == es[existingIndex]
                mergedEntry == computeEntryTotals(
                                   [existing EXCEPT !.quantity = existing.quantity + q],
                                   stg, blocked)
            IN IF ~mergedEntry.ok THEN es
               ELSE [es EXCEPT ![existingIndex] = EntryOf(mergedEntry)]
       ELSE Append(es, EntryOf(built))

\* updateEntry: the entry with id entryId recomputed with the updates; no
\* change when no entry has the id or computeEntryTotals throws.
updateEntry(es, entryId, updates, stg, blocked) ==
    LET index == FindIdFrom(es, entryId, 1)
    IN IF index = 0 THEN es
       ELSE LET existing == es[index]
                changed == [f \in DOMAIN existing |->
                               IF f = "id" THEN entryId
                               ELSE IF f \in DOMAIN updates THEN updates[f]
                               ELSE existing[f]]
                updated == computeEntryTotals(changed, stg, blocked)
            IN IF ~updated.ok THEN es ELSE [es EXCEPT ![index] = EntryOf(updated)]

\* entries.filter(e => e.id !== entryId)
RECURSIVE removeEntry(_, _)
removeEntry(es, entryId) ==
    IF es = <<>> THEN <<>>
    ELSE IF Head(es).id # entryId THEN <<Head(es)>> \o removeEntry(Tail(es), entryId)
    ELSE removeEntry(Tail(es), entryId)

\* The ticket saveCurrentTicket hands to createTicket, as db.createTicket
\* stores it (its timestamps are left out).
savedTicket(ct, createdBy, id) ==
    [id |-> id, agentId |-> ct.agentId, round |-> ct.round, date |-> ct.date,
     drawPeriod |-> ct.drawPeriod, createdBy |-> createdBy,
     entries |-> ct.entries, billTotal |-> SumTotals(ct.entries),
     synced |-> FALSE, deleted |-> FALSE]

\* ------------------------------------------------------------ undo stack
\* "Keep only last 10 undo actions": if (state.undoStack.length > 10)
UndoLimit == 10

\* state.undoStack.push(action); if (length > 10) state.undoStack.shift()
pushUndoUnbounded(stack, action) == Append(stack, action)

pushUndo(stack, action) ==
    LET pushed == Append(stack, action)
    IN IF Len(pushed) > UndoLimit THEN Tail(pushed) ELSE pushed

\* state.undoStack.pop()
popUndo(stack) == SubSeq(stack, 1, Len(stack) - 1)

\* A ticket of the undo model: its id, one content field and the flags
\* db.ts sets (the timestamps and the other content fields are left out).
UndoTicket(id, billTotal, deleted) ==
    [id |-> id, billTotal |-> billTotal, synced |-> FALSE, deleted |-> deleted]

\* ticketsStore.getItem(id): the index of the record, 0 when there is none
RECURSIVE DbIndexFrom(_, _, _)
DbIndexFrom(db, id, i) ==
    IF i > Len(db) THEN 0
    ELSE IF db[i].id = id THEN i
    ELSE DbIndexFrom(db, id, i + 1)

\* uuidv4(): an id no record of the store has
DbFreshId(db) == Len(db) + 1

\* db.createTicket: {...ticket, id: uuidv4(), synced: false, deleted: false}
dbCreated(db, data) == UndoTicket(DbFreshId(db), data.billTotal, FALSE)

dbCreateTicket(db, data) == Append(db, dbCreated(db, data))

\* db.updateTicket: {...existing, ...updates, id, synced: false}; Null when
\* the store has no record of the id
dbUpdated(db, id, updates) ==
    LET i == DbIndexFrom(db, id, 1)
    IN IF i = 0 THEN Null
       ELSE [id |-> id,
             billTotal |-> IF "billTotal" \in DOMAIN updates
                           THEN updates.billTotal ELSE db[i].billTotal,
             synced |-> FALSE,
             deleted |-> IF "deleted" \in DOMAIN updates
                         THEN updates.deleted ELSE db[i].deleted]

dbUpdateTicket(db, id, updates) ==
    LET i == DbIndexFrom(db, id, 1)
    IN IF i = 0 THEN db ELSE [db EXCEPT ![i] = dbUpdated(db, id, updates)]

\* db.deleteTicket: the soft delete {...existing, deleted: true}
dbDeleteTicket(db, id) ==
    LET i == DbIndexFrom(db, id, 1)
    IN IF i = 0 THEN db
       ELSE [db EXCEPT ![i] = [db[i] EXCEPT !.deleted = TRUE, !.synced = FALSE]]

\* state.tickets.filter((t) => t.id !== id)
RECURSIVE WithoutId(_, _)
WithoutId(ts, id) ==
    IF ts = <<>> THEN <<>>
    ELSE IF Head(ts).id # id THEN <<Head(ts)>> \o WithoutId(Tail(ts), id)
    ELSE WithoutId(Tail(ts), id)

\* The app store's part that the ticket handlers and undo use: the local
\* ticket list, the tickets store of db.ts, the undo stack, and for each
\* recorded action the ticket list before it.
UndoState(ts, db, stack, before) ==
    [tickets |-> ts, db |-> db, undoStack |-> stack, before |-> before]

\* useAppStore.createTicket
createTicket(st, data) ==
    LET ticket == dbCreated(st.db, data)
    IN UndoState(Append(st.tickets, ticket),
                 dbCreateTicket(st.db, data),
                 pushUndo(st.undoStack, [type |-> "CREATE_TICKET", data |-> ticket]),
                 pushUndo(st.before, st.tickets))

\* useAppStore.updateTicket
updateTicket(st, id, updates) ==
    LET index == DbIndexFrom(st.tickets, id, 1)
        updated == dbUpdated(st.db, id, updates)
    IN IF index = 0 THEN st
       ELSE IF updated = Null THEN st
       ELSE UndoState([st.tickets EXCEPT ![index] = updated],
                      dbUpdateTicket(st.db, id, updates),
                      pushUndo(st.undoStack,
                               [type |-> "UPDATE_TICKET", data |-> st.tickets[index]]),
                      pushUndo(st.before, st.tickets))

\* useAppStore.deleteTicket
deleteTicket(st, id) ==
    LET index == DbIndexFrom(st.tickets, id, 1)
    IN IF index = 0 THEN st
       ELSE UndoState(WithoutId(st.tickets, id),
                      dbDeleteTicket(st.db, id),
                      pushUndo(st.undoStack,
                               [type |-> "DELETE_TICKET", data |-> st.tickets[index]]),
                      pushUndo(st.before, st.tickets))

\* useAppStore.undo: the state it leaves (its return value is undoReturns)
undoReturns(st) == st.undoStack # <<>>

undo(st) ==
    IF st.undoStack = <<>> THEN st
    ELSE LET lastAction == st.undoStack[Len(st.undoStack)]
             index == DbIndexFrom(st.tickets, lastAction.data.id, 1)
         IN CASE lastAction.type = "CREATE_TICKET" ->
                    UndoState(WithoutId(st.tickets, lastAction.data.id),
                              dbDeleteTicket(st.db, lastAction.data.id),
                              popUndo(st.undoStack), popUndo(st.before))
              [] lastAction.type = "UPDATE_TICKET" ->
                    UndoState(IF index > 0
                              THEN [st.tickets EXCEPT ![index] = lastAction.data]
                              ELSE st.tickets,
                              dbUpdateTicket(st.db, lastAction.data.id, lastAction.data),
                              popUndo(st.undoStack), popUndo(st.before))
              [] lastAction.type = "DELETE_TICKET" ->
                    UndoState(Append(st.tickets, lastAction.data),
                              dbCreateTicket(st.db, lastAction.data),
                              popUndo(st.undoStack), popUndo(st.before))

\* The remaining variables while nothing that uses them is called.
PeriodIdle ==
    /\ selectedPeriod = <<>> /\ inPeriod = NotCalled
    /\ assignedPeriod = NotCalled /\ currentPeriod = NotCalled

SyncIdle ==
    /\ syncQueue = {} /\ itemCount = 0 /\ remote = {}
    /\ pushPc = "idle" /\ pushQueue = {}

UndoIdle ==
    /\ dbTickets = <<>>
    /\ undoStack = <<>> /\ undoBefore = <<>> /\ undoResult = NotCalled /\ steps = 0

ExtraIdle ==
    /\ expansionCount = NotCalled
    /\ PeriodIdle /\ SyncIdle /\ UndoIdle

\* The variables of the aggregation functions while none of them is called.
AggIdle ==
    /\ threshold = 0 /\ riskyNumbers = NotCalled
    /\ newEntry = NotCalled /\ violation = NotCalled
    /\ date = <<>> /\ perNumberMax = 0 /\ numberTotals = NotCalled
    /\ agents = <<>> /\ round = "" /\ tzWest = FALSE /\ summary = NotCalled

\* The variables of recomputeTicket, mergeDuplicateEntries and the store
\* while none of them is used.
TicketIdle ==
    /\ pastTicket = NotCalled /\ recomputed = NotCalled
    /\ entryList = <<>> /\ merged = NotCalled
    /\ currentTicket = Null /\ storeTickets = <<>>

\* --------------------------------------------------- specification: expand
InitExpand ==
    /\ raw \in StringsUpTo(Chars, MaxRawLen)
    /\ category \in Category
    /\ expanded = NotCalled
    /\ entry = NotCalled /\ settings = DEFAULT_SETTINGS
    /\ blockedNumbers = <<>> /\ computed = NotCalled
    /\ tickets = <<>> /\ lotteryResult = NoResult /\ actualPayout = NotComputed
    /\ AggIdle /\ TicketIdle /\ ExtraIdle

ExpandNumber ==
    /\ expanded = NotCalled
    /\ expanded' = expandNumber(raw, category)
    /\ UNCHANGED <<raw, category, entryVars, payoutVars, aggVars, ticketVars, extraVars>>

GetExpansionCount ==
    /\ expansionCount = NotCalled
    /\ expansionCount' = Returned(getExpansionCount(raw, category))
    /\ UNCHANGED <<expandVars, entryVars, payoutVars, aggVars, ticketVars,
                   periodVars, syncVars, undoVars>>

NextExpand == ExpandNumber \/ GetExpansionCount

SpecExpand == InitExpand /\ [][NextExpand]_vars

\* ---------------------------------------------------- specification: entry
InitEntry ==
    /\ \E c \in Category, r \in StringsOfLen(Digits, 2) \cup StringsOfLen(Digits, 3),
          p \in 1..MaxUnitPrice, q \in 1..MaxQuantity :
          /\ r \in ValidRaws(c)
          /\ entry = [id |-> 1, category |-> c, raw |-> r, unitPrice |-> p, quantity |-> q]
    /\ settings \in SettingsChoices
    /\ blockedNumbers \in UNION {[1..n -> BlockedPool] : n \in 0..MaxBlocked}
    /\ computed = NotCalled
    /\ raw = <<>> /\ category = "3top" /\ expanded = NotCalled /\ ExtraIdle
    /\ tickets = <<>> /\ lotteryResult = NoResult /\ actualPayout = NotComputed
    /\ AggIdle /\ TicketIdle

ComputeEntryTotals ==
    /\ computed = NotCalled
    /\ computed' = computeEntryTotals(entry, settings, blockedNumbers)
    /\ UNCHANGED <<entry, settings, blockedNumbers, expandVars, extraVars, payoutVars, aggVars, ticketVars>>

NextEntry == ComputeEntryTotals

SpecEntry == InitEntry /\ [][NextEntry]_vars

\* --------------------------------------------------- specification: payout
\* computeActualPayout on a list of stored tickets and a lottery result.
ComputeActualPayout ==
    /\ actualPayout = NotComputed
    /\ actualPayout' = computeActualPayout(tickets, lotteryResult)
    /\ UNCHANGED <<tickets, lotteryResult, expandVars, extraVars, entryVars, aggVars, ticketVars>>

InitPayout ==
    /\ tickets \in UNION {[1..n -> PayoutTickets] : n \in 0..MaxTickets}
    /\ lotteryResult \in PayoutResults \cup {NoResult}
    /\ actualPayout = NotComputed
    /\ raw = <<>> /\ category = "3top" /\ expanded = NotCalled /\ ExtraIdle
    /\ entry = NotCalled /\ settings = DEFAULT_SETTINGS
    /\ blockedNumbers = <<>> /\ computed = NotCalled
    /\ AggIdle /\ TicketIdle

NextPayout == ComputeActualPayout

SpecPayout == InitPayout /\ [][NextPayout]_vars

\* ------------------------------------------------------ specification: win
\* computeActualPayout on one live ticket whose single entry
\* computeEntryTotals produced, over every bet and every drawn number.
InitWin ==
    /\ \E c \in Category, r \in StringsOfLen(Digits, 2) \cup StringsOfLen(Digits, 3),
          p \in 1..MaxUnitPrice :
          /\ r \in ValidRaws(c)
          /\ entry = [id |-> 1, category |-> c, raw |-> r,
                      unitPrice |-> p, quantity |-> MaxQuantity]
    /\ settings = DEFAULT_SETTINGS
    /\ blockedNumbers \in WinBlocked
    /\ computed = computeEntryTotals(entry, settings, blockedNumbers)
    /\ tickets = <<TicketOf(StoredEntry(entry, settings, blockedNumbers), FALSE)>>
    /\ lotteryResult \in WinResults
    /\ actualPayout = NotComputed
    /\ raw = <<>> /\ category = "3top" /\ expanded = NotCalled /\ ExtraIdle
    /\ AggIdle /\ TicketIdle

NextWin == ComputeActualPayout

SpecWin == InitWin /\ [][NextWin]_vars

\* ---------------------------------------------------- specification: risky
\* The draw of 16 January 2025 and the day before it, in the same period.
DrawDay == Date(2025, 1, 16)
DayBefore == Date(2025, 1, 15)

\* A stored ticket with the fields the aggregation functions read.
StoredTicket(es, isDeleted, d, agent, rnd) ==
    [deleted |-> isDeleted, entries |-> es, billTotal |-> SumTotals(es),
     date |-> d, agentId |-> agent, round |-> rnd]

\* The stored entry of category c on r at unit price p, bought once.
SoldEntry(c, r, p) ==
    StoredEntry([id |-> 1, category |-> c, raw |-> r, unitPrice |-> p, quantity |-> 1],
                DEFAULT_SETTINGS, <<>>)

\* Bets on '123' and '321' whose combos meet in one bucket or, under another
\* category, in separate buckets.
RiskyEntries ==
    {SoldEntry(c, BetThree, p) : c \in {"3top", "3tod", "3down"}, p \in 1..MaxUnitPrice}
    \cup {SoldEntry("3tod", Reverse(BetThree), p) : p \in 1..MaxUnitPrice}

\* One-entry tickets, live or soft-deleted, and a live ticket of two entries.
RiskyTickets ==
    {StoredTicket(<<e>>, d, Date(2025, 1, 16), "agent1", "morning") :
        e \in RiskyEntries, d \in BOOLEAN}
    \cup {StoredTicket(<<SoldEntry("3top", BetThree, MaxUnitPrice),
                          SoldEntry("3tod", BetThree, MaxUnitPrice)>>,
                        FALSE, Date(2025, 1, 16), "agent1", "morning")}

InitRisky ==
    /\ tickets \in UNION {[1..n -> RiskyTickets] : n \in 0..MaxTickets}
    /\ threshold \in 0..MaxThreshold
    /\ riskyNumbers = NotCalled
    /\ newEntry = NotCalled /\ violation = NotCalled
    /\ date = <<>> /\ perNumberMax = 0 /\ numberTotals = NotCalled
    /\ agents = <<>> /\ round = "" /\ tzWest = FALSE /\ summary = NotCalled
    /\ raw = <<>> /\ category = "3top" /\ expanded = NotCalled /\ ExtraIdle
    /\ entry = NotCalled /\ settings = DEFAULT_SETTINGS
    /\ blockedNumbers = <<>> /\ computed = NotCalled
    /\ lotteryResult = NoResult /\ actualPayout = NotComputed
    /\ TicketIdle

FindRiskyNumbers ==
    /\ riskyNumbers = NotCalled
    /\ riskyNumbers' = Returned(findRiskyNumbers(tickets, threshold))
    /\ UNCHANGED <<tickets, threshold, newEntry, violation, date, perNumberMax,
                   numberTotals, agents, round, tzWest, summary,
                   lotteryResult, actualPayout, expandVars, extraVars, entryVars, ticketVars>>

NextRisky == FindRiskyNumbers

SpecRisky == InitRisky /\ [][NextRisky]_vars

\* -------------------------------------------------- specification: ceiling
\* Sold tickets on '23' and '32' under 2top and on '32' under 2down.
CeilingTickets ==
    {StoredTicket(<<SoldEntry(cr[1], cr[2], p)>>, d, Date(2025, 1, 16), "agent1", "morning") :
        cr \in {<<"2top", BetTwo>>, <<"2top", Reverse(BetTwo)>>, <<"2down", Reverse(BetTwo)>>},
        p \in 1..MaxUnitPrice, d \in BOOLEAN}

\* The entry about to be sold: '23' under 2top alone or with its reverse,
\* under 2tod, or not yet computed.
CeilingEntries ==
    {SoldEntry(c, BetTwo, p) : c \in {"2top", "2tod"}, p \in 1..MaxUnitPrice}
    \cup {ReverseEntry("2top", BetTwo, p, 1, DEFAULT_SETTINGS, <<>>) : p \in 1..MaxUnitPrice}
    \cup {[id |-> 1, category |-> "2top", raw |-> BetTwo, unitPrice |-> 1, quantity |-> 1]}

InitCeiling ==
    /\ tickets \in UNION {[1..n -> CeilingTickets] : n \in 0..MaxTickets}
    /\ newEntry \in CeilingEntries
    /\ settings \in {[DEFAULT_SETTINGS EXCEPT !.ceilings.perComboMax = k] : k \in 1..MaxCeiling}
    /\ violation = NotCalled
    /\ threshold = 0 /\ riskyNumbers = NotCalled
    /\ date = <<>> /\ perNumberMax = 0 /\ numberTotals = NotCalled
    /\ agents = <<>> /\ round = "" /\ tzWest = FALSE /\ summary = NotCalled
    /\ raw = <<>> /\ category = "3top" /\ expanded = NotCalled /\ ExtraIdle
    /\ entry = NotCalled /\ blockedNumbers = <<>> /\ computed = NotCalled
    /\ lotteryResult = NoResult /\ actualPayout = NotComputed
    /\ TicketIdle

CheckCeilingViolation ==
    /\ violation = NotCalled
    /\ violation' = Returned(checkCeilingViolation(tickets, newEntry, settings))
    /\ UNCHANGED <<tickets, newEntry, settings, threshold, riskyNumbers, date,
                   perNumberMax, numberTotals, agents, round, tzWest, summary,
                   lotteryResult, actualPayout, expandVars, extraVars, entry, blockedNumbers,
                   computed, ticketVars>>

NextCeiling == CheckCeilingViolation

SpecCeiling == InitCeiling /\ [][NextCeiling]_vars

\* --------------------------------------------------- specification: totals
\* A 3top entry on '123' stored without its computed fields.
UncomputedEntry ==
    [id |-> 1, category |-> "3top", raw |-> BetThree,
     unitPrice |-> MaxUnitPrice, quantity |-> 1]

\* Tickets on '123' under 3top and on '321' under 3tod, sold on the draw day
\* or the day before, live or soft-deleted.
DatedTickets ==
    {StoredTicket(<<e>>, del, d, "agent1", "morning") :
        e \in {SoldEntry("3top", BetThree, p) : p \in 1..MaxUnitPrice}
               \cup {SoldEntry("3tod", Reverse(BetThree), p) : p \in 1..MaxUnitPrice}
               \cup {UncomputedEntry},
        del \in BOOLEAN, d \in {DrawDay, DayBefore}}

InitTotals ==
    /\ tickets \in UNION {[1..n -> DatedTickets] : n \in 0..MaxTickets}
    /\ date = DrawDay
    /\ perNumberMax \in 1..MaxCeiling
    /\ numberTotals = NotCalled
    /\ threshold = 0 /\ riskyNumbers = NotCalled
    /\ newEntry = NotCalled /\ violation = NotCalled
    /\ agents = <<>> /\ round = "" /\ tzWest = FALSE /\ summary = NotCalled
    /\ raw = <<>> /\ category = "3top" /\ expanded = NotCalled /\ ExtraIdle
    /\ entry = NotCalled /\ settings = DEFAULT_SETTINGS
    /\ blockedNumbers = <<>> /\ computed = NotCalled
    /\ lotteryResult = NoResult /\ actualPayout = NotComputed
    /\ TicketIdle

GetNumberTotals ==
    /\ numberTotals = NotCalled
    /\ numberTotals' = Returned(getNumberTotals(tickets, date, perNumberMax))
    /\ UNCHANGED <<tickets, date, perNumberMax, threshold, riskyNumbers, newEntry,
                   violation, agents, round, tzWest, summary, lotteryResult,
                   actualPayout, expandVars, extraVars, entryVars, ticketVars>>

NextTotals == GetNumberTotals

SpecTotals == InitTotals /\ [][NextTotals]_vars

\* -------------------------------------------------- specification: summary
\* The first day after the period of the draw of 16 January 2025.
DayAfterPeriod == Date(2025, 1, 18)

\* The agents list: agent1 and agent2 are known, any other id is not.
KnownAgents ==
    <<[id |-> "agent1", name |-> "Somchai"], [id |-> "agent2", name |-> "Malee"]>>

\* Tickets around one baseline (3top on '123', live, the day before the
\* draw, agent1, morning): other unit prices, soft-deleted, other dates,
\* other agents, another round, a 3tod bet, and a ticket of two entries.
SummaryTickets ==
    LET top == SoldEntry("3top", BetThree, MaxUnitPrice)
        tod == SoldEntry("3tod", BetThree, 1)
    IN {StoredTicket(<<SoldEntry("3top", BetThree, p)>>, FALSE, DayBefore, "agent1", "morning") :
            p \in 1..MaxUnitPrice}
       \cup {StoredTicket(<<top>>, TRUE, DayBefore, "agent1", "morning"),
              StoredTicket(<<top>>, FALSE, DrawDay, "agent1", "morning"),
              StoredTicket(<<top>>, FALSE, DayAfterPeriod, "agent1", "morning"),
              StoredTicket(<<top>>, FALSE, DayBefore, "agent2", "morning"),
              StoredTicket(<<tod>>, FALSE, DayBefore, "agent2", "morning"),
              StoredTicket(<<tod>>, FALSE, DayBefore, "agent9", "evening"),
              StoredTicket(<<top>>, FALSE, DayBefore, "agent1", "evening"),
              StoredTicket(<<top, tod>>, FALSE, DrawDay, "agent2", "evening")}

InitSummary ==
    /\ tickets \in UNION {[1..n -> SummaryTickets] : n \in 0..MaxSummaryTickets}
    /\ settings = [DEFAULT_SETTINGS EXCEPT !.riskyThreshold = MaxUnitPrice]
    /\ agents = KnownAgents
    /\ date \in {DrawDay, DayBefore}
    /\ round \in {"", "morning"}
    /\ tzWest \in BOOLEAN
    /\ summary = NotCalled
    /\ threshold = 0 /\ riskyNumbers = NotCalled
    /\ newEntry = NotCalled /\ violation = NotCalled
    /\ perNumberMax = 0 /\ numberTotals = NotCalled
    /\ raw = <<>> /\ category = "3top" /\ expanded = NotCalled /\ ExtraIdle
    /\ entry = NotCalled /\ blockedNumbers = <<>> /\ computed = NotCalled
    /\ lotteryResult = NoResult /\ actualPayout = NotComputed
    /\ TicketIdle

ComputeSummary ==
    /\ summary = NotCalled
    /\ summary' = computeSummary(tickets, settings, agents, date, round, tzWest)
    /\ UNCHANGED <<tickets, settings, agents, date, round, tzWest, threshold,
                   riskyNumbers, newEntry, violation, perNumberMax, numberTotals,
                   lotteryResult, actualPayout, expandVars, extraVars, entry, blockedNumbers,
                   computed, ticketVars>>

NextSummary == ComputeSummary

SpecSummary == InitSummary /\ [][NextSummary]_vars

\* ---------------------------------------------------- specification: store
\* The bets entered in the session: '23' under 2top, '123' under 3tod, and
\* two mistyped ones, '2a' under 2top and '23' under 3tod.
StoreBets ==
    {<<"2top", BetTwo>>, <<"3tod", BetThree>>, <<"2top", <<2, LetterA>>>>, <<"3tod", BetTwo>>}

\* The tickets saved before the session, under the default settings and no
\* blocked number: one of '123' under 3tod and '23' with its reverse under
\* 2top, and one whose entry was stored without its computed fields.
PastTickets ==
    LET first == addEntry(<<>>, "3tod", BetThree, MaxUnitPrice, 1, FALSE,
                          DEFAULT_SETTINGS, <<>>)
        both == addEntry(first, "2top", BetTwo, MaxUnitPrice, 1, TRUE,
                         DEFAULT_SETTINGS, <<>>)
        ct == initCurrentTicket("agent1", "morning", DayBefore, DrawDay)
    IN <<savedTicket([ct EXCEPT !.entries = both], "user1", 1),
         savedTicket([ct EXCEPT !.entries = <<UncomputedEntry>>], "user1", 2)>>

\* The configuration of the session: the default settings, which merge
\* duplicates, and no blocked number; or lowered payout rates, merging
\* switched off and an override of a 3tod combo.
StoreSettings ==
    {[settings |-> DEFAULT_SETTINGS, blockedNumbers |-> <<>>]}
    \cup {[settings |-> [LoweredSettings EXCEPT !.mergeDuplicates = FALSE],
            blockedNumbers |-> b] : b \in WinBlocked \ {<<>>}}

InitStore ==
    /\ \E cfg \in StoreSettings :
          settings = cfg.settings /\ blockedNumbers = cfg.blockedNumbers
    /\ currentTicket = Null
    /\ storeTickets = PastTickets
    /\ pastTicket = NotCalled /\ recomputed = NotCalled
    /\ entryList = <<>> /\ merged = NotCalled
    /\ raw = <<>> /\ category = "3top" /\ expanded = NotCalled /\ ExtraIdle
    /\ entry = NotCalled /\ computed = NotCalled
    /\ tickets = <<>> /\ lotteryResult = NoResult /\ actualPayout = NotComputed
    /\ AggIdle

\* One ticket is entered in the session.
InitCurrentTicket ==
    /\ storeTickets = PastTickets
    /\ currentTicket' = initCurrentTicket("agent1", "morning", DrawDay, DrawDay)
    /\ UNCHANGED <<storeTickets, pastTicket, recomputed, entryList, merged,
                   expandVars, extraVars, entryVars, payoutVars, aggVars>>

\* addEntry(bet, MaxUnitPrice, 1, withReverse)
AddEntryOf(bet, withReverse) ==
    /\ currentTicket # Null
    /\ LET es == addEntry(currentTicket.entries, bet[1], bet[2], MaxUnitPrice, 1,
                          withReverse, settings, blockedNumbers)
       IN /\ Len(es) <= MaxStoreEntries
          /\ \A i \in 1..Len(es) : es[i].quantity <= MaxQuantity
          /\ currentTicket' = [currentTicket EXCEPT !.entries = es]
    /\ UNCHANGED <<storeTickets, pastTicket, recomputed, entryList, merged,
                   expandVars, extraVars, entryVars, payoutVars, aggVars>>

AddEntry ==
    \E bet \in StoreBets, withReverse \in BOOLEAN : AddEntryOf(bet, withReverse)

UpdateEntry ==
    /\ currentTicket # Null
    /\ \E entryId \in 1..MaxStoreEntries, q \in 1..MaxQuantity :
          currentTicket' = [currentTicket EXCEPT !.entries =
                                updateEntry(currentTicket.entries, entryId,
                                            [quantity |-> q], settings, blockedNumbers)]
    /\ UNCHANGED <<storeTickets, pastTicket, recomputed, entryList, merged,
                   expandVars, extraVars, entryVars, payoutVars, aggVars>>

RemoveEntry ==
    /\ currentTicket # Null
    /\ \E entryId \in 1..MaxStoreEntries :
          currentTicket' = [currentTicket EXCEPT !.entries =
                                removeEntry(currentTicket.entries, entryId)]
    /\ UNCHANGED <<storeTickets, pastTicket, recomputed, entryList, merged,
                   expandVars, extraVars, entryVars, payoutVars, aggVars>>

ClearCurrentTicket ==
    /\ currentTicket # Null
    /\ currentTicket' = Null
    /\ UNCHANGED <<storeTickets, pastTicket, recomputed, entryList, merged,
                   expandVars, extraVars, entryVars, payoutVars, aggVars>>

\* saveCurrentTicket with createTicket: the ticket is appended to the saved
\* tickets and the current ticket is cleared.
SaveCurrentTicket ==
    /\ currentTicket # Null
    /\ currentTicket.entries # <<>>
    /\ storeTickets' = Append(storeTickets,
                              savedTicket(currentTicket, "user1", Len(storeTickets) + 1))
    /\ currentTicket' = Null
    /\ UNCHANGED <<pastTicket, recomputed, entryList, merged,
                   expandVars, extraVars, entryVars, payoutVars, aggVars>>

\* recomputeTicket on one of the saved tickets, under the current settings
\* and blocked numbers.
RecomputeTicket ==
    /\ currentTicket = Null
    /\ recomputed = NotCalled
    /\ \E i \in 1..Len(storeTickets) :
          /\ pastTicket' = storeTickets[i]
          /\ recomputed' = recomputeTicket(storeTickets[i], settings, blockedNumbers)
    /\ UNCHANGED <<currentTicket, storeTickets, entryList, merged,
                   expandVars, extraVars, entryVars, payoutVars, aggVars>>

NextStore ==
    \/ InitCurrentTicket
    \/ AddEntry
    \/ UpdateEntry
    \/ RemoveEntry
    \/ ClearCurrentTicket
    \/ SaveCurrentTicket
    \/ RecomputeTicket

SpecStore == InitStore /\ [][NextStore]_vars

\* ---------------------------------------------------- specification: merge
\* The entries with id n that a ticket may hold: '123' under 3top or 3tod or
\* '321' under 3top, bought once at the lowest or the highest unit price or
\* MaxQuantity times at the lowest, each as computeEntryTotals stored it;
\* and one entry stored without its computed fields.
MergeEntries(n) ==
    {StoredEntry([id |-> n, category |-> cr[1], raw |-> cr[2],
                  unitPrice |-> pq[1], quantity |-> pq[2]], DEFAULT_SETTINGS, <<>>) :
        cr \in {<<"3top", BetThree>>, <<"3tod", BetThree>>, <<"3top", Reverse(BetThree)>>},
        pq \in {<<1, 1>>, <<MaxUnitPrice, 1>>, <<1, MaxQuantity>>}}
    \cup {[UncomputedEntry EXCEPT !.id = n]}

InitMerge ==
    /\ entryList \in UNION {{es \in [1..n -> UNION {MergeEntries(i) : i \in 1..n}] :
                                \A i \in 1..n : es[i].id = i} : n \in 0..MaxMergeLen}
    /\ merged = NotCalled
    /\ pastTicket = NotCalled /\ recomputed = NotCalled
    /\ currentTicket = Null /\ storeTickets = <<>>
    /\ raw = <<>> /\ category = "3top" /\ expanded = NotCalled /\ ExtraIdle
    /\ entry = NotCalled /\ settings = DEFAULT_SETTINGS
    /\ blockedNumbers = <<>> /\ computed = NotCalled
    /\ tickets = <<>> /\ lotteryResult = NoResult /\ actualPayout = NotComputed
    /\ AggIdle

MergeDuplicateEntries ==
    /\ merged = NotCalled
    /\ merged' = Returned(mergeDuplicateEntries(entryList))
    /\ UNCHANGED <<entryList, pastTicket, recomputed, currentTicket, storeTickets,
                   expandVars, extraVars, entryVars, payoutVars, aggVars>>

NextMerge == MergeDuplicateEntries

SpecMerge == InitMerge /\ [][NextMerge]_vars

\* --------------------------------------------------- specification: period
\* The years and months of the ticket dates and the anchors: a leap year and
\* the year after it, the months around the turn of the year.
PeriodYears == {2024, 2025}
PeriodMonths == {1, 2, 12}

\* Every calendar date of those months.
PeriodDates ==
    UNION {{Date(y, m, d) : d \in 1..DaysInMonth(y, m)} : y \in PeriodYears, m \in PeriodMonths}

\* The anchors on the 1st and the 16th of those months and of the January
\* after them, and anchors on other days.
PeriodAnchors ==
    {Date(y, m, d) : y \in PeriodYears, m \in PeriodMonths, d \in {1, 2, 15, 16, 17}}
    \cup {Date(2026, 1, 1)}

InitPeriod ==
    /\ date \in PeriodDates
    /\ selectedPeriod \in PeriodAnchors
    /\ tzWest \in BOOLEAN
    /\ inPeriod = NotCalled /\ assignedPeriod = NotCalled /\ currentPeriod = NotCalled
    /\ expansionCount = NotCalled /\ SyncIdle /\ UndoIdle
    /\ threshold = 0 /\ riskyNumbers = NotCalled
    /\ newEntry = NotCalled /\ violation = NotCalled
    /\ perNumberMax = 0 /\ numberTotals = NotCalled
    /\ agents = <<>> /\ round = "" /\ summary = NotCalled
    /\ raw = <<>> /\ category = "3top" /\ expanded = NotCalled
    /\ entry = NotCalled /\ settings = DEFAULT_SETTINGS
    /\ blockedNumbers = <<>> /\ computed = NotCalled
    /\ tickets = <<>> /\ lotteryResult = NoResult /\ actualPayout = NotComputed
    /\ TicketIdle

IsDateInDrawPeriod ==
    /\ inPeriod = NotCalled
    /\ inPeriod' = Returned(isDateInDrawPeriod(date, selectedPeriod, tzWest))
    /\ UNCHANGED <<expandVars, entryVars, payoutVars, aggVars, ticketVars,
                   expansionCount, syncVars, undoVars, selectedPeriod, assignedPeriod, currentPeriod>>

CalculateDrawPeriod ==
    /\ inPeriod # NotCalled
    /\ assignedPeriod = NotCalled
    /\ assignedPeriod' = Returned(calculateDrawPeriod(date, tzWest))
    /\ UNCHANGED <<expandVars, entryVars, payoutVars, aggVars, ticketVars,
                   expansionCount, syncVars, undoVars, selectedPeriod, inPeriod, currentPeriod>>

\* getCurrentDrawPeriod on the day `date`.
GetCurrentDrawPeriod ==
    /\ assignedPeriod # NotCalled
    /\ currentPeriod = NotCalled
    /\ currentPeriod' = Returned(getCurrentDrawPeriod(date))
    /\ UNCHANGED <<expandVars, entryVars, payoutVars, aggVars, ticketVars,
                   expansionCount, syncVars, undoVars, selectedPeriod, inPeriod, assignedPeriod>>

NextPeriod == IsDateInDrawPeriod \/ CalculateDrawPeriod \/ GetCurrentDrawPeriod

SpecPeriod == InitPeriod /\ [][NextPeriod]_vars

\* ----------------------------------------------------- specification: sync
\* A local write: addToSyncQueue stores a new item in the queue store.
AddToSyncQueue ==
    /\ itemCount < MaxSyncItems
    /\ itemCount' = itemCount + 1
    /\ syncQueue' = syncQueue \cup {itemCount + 1}
    /\ UNCHANGED <<remote, pushPc, pushQueue>>

\* pushLocalChanges up to its first await: const queue = await db.getSyncQueue()
PushGetSyncQueue ==
    /\ pushPc = "idle"
    /\ pushQueue' = syncQueue
    /\ pushPc' = "commit"
    /\ UNCHANGED <<syncQueue, itemCount, remote>>

\* await batch.commit() succeeds: every item read is written to the remote.
PushCommit ==
    /\ pushPc = "commit"
    /\ remote' = remote \cup pushQueue
    /\ pushPc' = "clear"
    /\ UNCHANGED <<syncQueue, itemCount, pushQueue>>

\* await batch.commit() throws: the catch block returns.
PushCommitFails ==
    /\ pushPc = "commit"
    /\ pushPc' = "idle"
    /\ pushQueue' = {}
    /\ UNCHANGED <<syncQueue, itemCount, remote>>

\* await db.clearSyncQueue(): syncQueueStore.clear()
PushClearSyncQueue ==
    /\ pushPc = "clear"
    /\ syncQueue' = {}
    /\ pushPc' = "idle"
    /\ pushQueue' = {}
    /\ UNCHANGED <<itemCount, remote>>

InitSync ==
    /\ SyncIdle
    /\ expansionCount = NotCalled /\ PeriodIdle /\ UndoIdle
    /\ raw = <<>> /\ category = "3top" /\ expanded = NotCalled
    /\ entry = NotCalled /\ settings = DEFAULT_SETTINGS
    /\ blockedNumbers = <<>> /\ computed = NotCalled
    /\ tickets = <<>> /\ lotteryResult = NoResult /\ actualPayout = NotComputed
    /\ AggIdle /\ TicketIdle

NextSync ==
    /\ \/ AddToSyncQueue
       \/ PushGetSyncQueue
       \/ PushCommit
       \/ PushCommitFails
       \/ PushClearSyncQueue
    /\ UNCHANGED <<expandVars, entryVars, payoutVars, aggVars, ticketVars,
                   expansionCount, periodVars, undoVars>>

SpecSync == InitSync /\ [][NextSync]_vars

\* ----------------------------------------------------- specification: undo
\* The contents createTicket and updateTicket are given.
TicketContents == {[billTotal |-> b] : b \in 1..MaxUnitPrice}

\* The app store after loadTickets in a session whose tickets store holds
\* two tickets: the undo stack is empty.
UndoLoaded ==
    LET db == <<UndoTicket(1, 1, FALSE), UndoTicket(2, 2, FALSE)>>
    IN UndoState(db, db, <<>>, <<>>)

\* The app store after n further updateTicket calls on the first ticket.
RECURSIVE UndoAfterUpdates(_)
UndoAfterUpdates(n) ==
    IF n = 0 THEN UndoLoaded
    ELSE updateTicket(UndoAfterUpdates(n - 1), 1, [billTotal |-> 1 + (n % 2)])

\* The sessions start with an empty or with a full undo stack.
UndoSessions == {UndoAfterUpdates(0), UndoAfterUpdates(UndoLimit)}

CurrentUndoState == UndoState(storeTickets, dbTickets, undoStack, undoBefore)

SetUndoState(st) ==
    /\ storeTickets' = st.tickets
    /\ dbTickets' = st.db
    /\ undoStack' = st.undoStack
    /\ undoBefore' = st.before
    /\ steps' = steps + 1

InitUndo ==
    /\ \E st \in UndoSessions :
          /\ storeTickets = st.tickets /\ dbTickets = st.db
          /\ undoStack = st.undoStack /\ undoBefore = st.before
    /\ undoResult = NotCalled /\ steps = 0
    /\ pastTicket = NotCalled /\ recomputed = NotCalled
    /\ entryList = <<>> /\ merged = NotCalled /\ currentTicket = Null
    /\ expansionCount = NotCalled /\ PeriodIdle /\ SyncIdle
    /\ raw = <<>> /\ category = "3top" /\ expanded = NotCalled
    /\ entry = NotCalled /\ settings = DEFAULT_SETTINGS
    /\ blockedNumbers = <<>> /\ computed = NotCalled
    /\ tickets = <<>> /\ lotteryResult = NoResult /\ actualPayout = NotComputed
    /\ AggIdle

CreateTicket ==
    /\ steps < MaxUndoSteps
    /\ Len(dbTickets) < MaxDbTickets
    /\ \E data \in TicketContents : SetUndoState(createTicket(CurrentUndoState, data))
    /\ UNCHANGED undoResult

UpdateTicket ==
    /\ steps < MaxUndoSteps
    /\ \E id \in 1..MaxDbTickets, updates \in TicketContents :
          SetUndoState(updateTicket(CurrentUndoState, id, updates))
    /\ UNCHANGED undoResult

DeleteTicket ==
    /\ steps < MaxUndoSteps
    /\ \E id \in 1..MaxDbTickets : SetUndoState(deleteTicket(CurrentUndoState, id))
    /\ UNCHANGED undoResult

Undo ==
    /\ steps < MaxUndoSteps
    /\ undoStack # <<>> /\ undoStack[Len(undoStack)].type = "DELETE_TICKET"
            => Len(dbTickets) < MaxDbTickets
    /\ SetUndoState(undo(CurrentUndoState))
    /\ undoResult' = Returned(undoReturns(CurrentUndoState))

NextUndo ==
    /\ \/ CreateTicket
       \/ UpdateTicket
       \/ DeleteTicket
       \/ Undo
    /\ UNCHANGED <<pastTicket, recomputed, entryList, merged, currentTicket,
                   expandVars, entryVars, payoutVars, aggVars,
                   expansionCount, periodVars, syncVars>>

SpecUndo == InitUndo /\ [][NextUndo]_vars

\* ============================================================== properties
\* ------------------------------------------------------- reference notions
\* r is accepted for category c: only digits, of the category's length.
IsValidRaw(r, c) ==
    /\ Len(r) = (IF c \in {"3top", "3tod", "3down", "3back"} THEN 3 ELSE 2)
    /\ \A i \in 1..Len(r) : r[i] \in 0..9

\* s is a reordering of the characters of r.
IsReordering(s, r) ==
    /\ Len(s) = Len(r)
    /\ \E p \in Permutations(1..Len(r)) : \A i \in 1..Len(r) : s[i] = r[p[i]]

\* The list of the strings of the finite set S, strictly ascending.
AscendingList(S) ==
    CHOOSE q \in [1..Cardinality(S) -> S] :
        \A i, j \in 1..Cardinality(S) : i < j => StrLess(q[i], q[j])

Reorderings(r) == {s \in [1..Len(r) -> SeqToSet(r)] : IsReordering(s, r)}

DistinctDigits(r) == Cardinality(SeqToSet(r))

\* The sum f[1] + ... + f[n].
RECURSIVE SumFn(_, _)
SumFn(f, n) == IF n = 0 THEN 0 ELSE f[n] + SumFn(f, n - 1)

\* The places <<ticket, entry, item>> of the perComboTotals of the
\* non-deleted tickets of ts.
LivePlaces(ts) ==
    UNION {UNION {{<<t, e, i>> : i \in 1..Len(ts[t].entries[e].perComboTotals)} :
                     e \in {k \in 1..Len(ts[t].entries) :
                                "perComboTotals" \in DOMAIN ts[t].entries[k]}} :
              t \in {k \in 1..Len(ts) : ~ts[k].deleted}}

\* The sum of the values of the function f.
RECURSIVE SumOfFn(_)
SumOfFn(f) ==
    IF DOMAIN f = {} THEN 0
    ELSE LET x == CHOOSE y \in DOMAIN f : TRUE
         IN f[x] + SumOfFn([y \in DOMAIN f \ {x} |-> f[y]])

\* The amount sold on combo under category c in the non-deleted tickets of ts.
SoldOn(ts, c, combo) ==
    SumOfFn([w \in {v \in LivePlaces(ts) :
                        /\ ts[v[1]].entries[v[2]].category = c
                        /\ ts[v[1]].entries[v[2]].perComboTotals[v[3]].combo = combo}
                |-> ts[w[1]].entries[w[2]].perComboTotals[w[3]].soldAmount])

\* The pairs <<category, combo>> that occur in the non-deleted tickets of ts.
SoldPairs(ts) ==
    {<<ts[w[1]].entries[w[2]].category,
       ts[w[1]].entries[w[2]].perComboTotals[w[3]].combo>> : w \in LivePlaces(ts)}

\* The positions of the tickets computeSummary has to retain: not
\* soft-deleted, dated in the draw-period window of `date` or exactly
\* `date`, and of the given round when one is given.
Retained ==
    {t \in 1..Len(tickets) :
        /\ ~tickets[t].deleted
        /\ (isDateInDrawPeriod(tickets[t].date, date, tzWest) \/ tickets[t].date = date)
        /\ (round = "" \/ tickets[t].round = round)}

\* The tickets at the positions T, in the order of the list.
RECURSIVE TicketsAt(_, _)
TicketsAt(T, i) ==
    IF i > Len(tickets) THEN <<>>
    ELSE (IF i \in T THEN <<tickets[i]>> ELSE <<>>) \o TicketsAt(T, i + 1)

\* The expected payout of the tickets at the positions T: every
\* perComboTotal of every entry, as if it wins.
ExpectedOver(T) ==
    SumOfFn([w \in {v \in LivePlaces(tickets) : v[1] \in T} |->
                LET item == tickets[w[1]].entries[w[2]].perComboTotals[w[3]]
                IN item.payoutRate * item.unitPrice * item.quantity])

\* The bill totals of the tickets at the positions T.
GrossOver(T) == SumOfFn([t \in T |-> tickets[t].billTotal])

C2_TodTotalCountsCombos ==
    (computed # NotCalled /\ computed.ok /\ entry.category \in {"3tod", "2tod"}) =>
        computed.total = Len(computed.expanded) * entry.unitPrice * entry.quantity

\* ---------------------------------------------------------------------- C3
\* The reference expansion of r under category c.
C3_Reference(r, c) ==
    IF c \in {"3tod", "2tod"} THEN AscendingList(Reorderings(r)) ELSE <<r>>

\* C3: for every valid raw, expandNumber is the reference expansion: [raw]
\* for 3top, 3down, 2top and 2down; for 3tod the distinct reorderings of the
\* three digits in ascending order (6, 3 or 1 of them); for 2tod raw and its
\* reverse in ascending order without duplicates (2 or 1 of them).
C3_ExpandIsReference ==
    (expanded # NotCalled /\ IsValidRaw(raw, category)
        /\ category \in {"3top", "3down", "2top", "2down", "3tod", "2tod"}) =>
        /\ expanded.ok
        /\ expanded.combos = C3_Reference(raw, category)
        /\ category = "3tod" =>
              Len(expanded.combos) =
                  (CASE DistinctDigits(raw) = 3 -> 6
                     [] DistinctDigits(raw) = 2 -> 3
                     [] DistinctDigits(raw) = 1 -> 1)
        /\ category = "2tod" =>
              Len(expanded.combos) = (IF raw[1] # raw[2] THEN 2 ELSE 1)

\* '321' under 3tod, expanded to its six reorderings starting with '123'.
C3_Witness ==
    /\ category = "3tod" /\ raw = <<3, 2, 1>>
    /\ expanded # NotCalled /\ expanded.ok
    /\ Len(expanded.combos) = 6 /\ expanded.combos[1] = <<1, 2, 3>>

\* ---------------------------------------------------------------------- C4
\* C4: the back categories expand exactly like the tod categories:
\* expandNumber(raw, '3back') = expandNumber(raw, '3tod') for every valid
\* 3-digit raw and expandNumber(raw, '2back') = expandNumber(raw, '2tod')
\* for every valid 2-digit raw.
C4_BackExpandsLikeTod ==
    (expanded # NotCalled /\ IsValidRaw(raw, category)) =>
        /\ category = "3back" => expanded = expandNumber(raw, "3tod")
        /\ category = "2back" => expanded = expandNumber(raw, "2tod")

\* ---------------------------------------------------------------------- C5
\* C5: computeEntryTotals produces one PerComboTotal per element of
\* expanded, in the same order and with the same combo, each with the
\* entry's unitPrice and quantity and soldAmount = unitPrice * quantity,
\* whatever the payout settings and the blocked numbers are.
C5_PerComboFullStake ==
    computed # NotCalled =>
        /\ computed.ok
        /\ Len(computed.perComboTotals) = Len(computed.expanded)
        /\ \A i \in 1..Len(computed.expanded) :
              /\ computed.perComboTotals[i].combo = computed.expanded[i]
              /\ computed.perComboTotals[i].unitPrice = entry.unitPrice
              /\ computed.perComboTotals[i].quantity = entry.quantity
              /\ computed.perComboTotals[i].soldAmount = entry.unitPrice * entry.quantity

\* Six combos at the full stake 2 * 2 under lowered payout rates, one of
\* them with an override.
C5_Witness ==
    /\ computed # NotCalled /\ computed.ok
    /\ Len(computed.perComboTotals) = 6
    /\ entry.unitPrice = 2 /\ entry.quantity = 2
    /\ settings # DEFAULT_SETTINGS
    /\ \E i \in 1..6 :
          computed.perComboTotals[i].payoutRate # settings.payouts[entry.category]
    /\ \A i \in 1..6 : computed.perComboTotals[i].soldAmount = 4

\* ---------------------------------------------------------------------- C6
\* The positions of the enabled overrides of combo in the entry's category.
C6_Matches(combo) ==
    {j \in 1..Len(blockedNumbers) :
        /\ blockedNumbers[j].enabled
        /\ blockedNumbers[j].number = combo
        /\ blockedNumbers[j].category = entry.category}

\* The reference rate of combo: the first such override, else the default.
C6_Rate(combo) ==
    IF C6_Matches(combo) = {} THEN settings.payouts[entry.category]
    ELSE blockedNumbers[CHOOSE j \in C6_Matches(combo) :
                            \A k \in C6_Matches(combo) : j <= k].payoutOverride

\* C6: the payoutRate of a combo is the payoutOverride of the first
\* BlockedNumber in list order that is enabled and has number = combo and
\* category = the entry's category (an override of 0 included), and
\* otherwise settings.payouts[entry.category]; disabled overrides and
\* overrides for another category or another combo change nothing.
C6_FirstEnabledOverride ==
    (computed # NotCalled /\ computed.ok) =>
        \A i \in 1..Len(computed.perComboTotals) :
            computed.perComboTotals[i].payoutRate =
                C6_Rate(computed.perComboTotals[i].combo)

\* A 3tod entry on '123' under two enabled overrides of its combo '321',
\* the first of them 0: that combo alone gets rate 0.
C6_Witness ==
    /\ computed # NotCalled /\ computed.ok
    /\ entry.category = "3tod" /\ Len(computed.perComboTotals) = 6
    /\ Len(blockedNumbers) = 2
    /\ blockedNumbers[1].enabled /\ blockedNumbers[1].payoutOverride = 0
    /\ blockedNumbers[2].enabled /\ blockedNumbers[2].payoutOverride = 50
    /\ blockedNumbers[1].category = "3tod" /\ blockedNumbers[2].category = "3tod"
    /\ \A i \in 1..6 :
          computed.perComboTotals[i].payoutRate =
              (IF computed.perComboTotals[i].combo = blockedNumbers[1].number
               THEN 0 ELSE settings.payouts["3tod"])

\* ---------------------------------------------------------------------- C7
\* The winning rule of the claim for a combo of category c.
C7_Wins(c, combo) ==
    \/ c \in {"3top", "3tod"} /\ combo = lotteryResult.threeTop
    \/ /\ c = "2top"
       /\ lotteryResult.threeTop # Undefined
       /\ combo = <<lotteryResult.threeTop[2], lotteryResult.threeTop[3]>>
    \/ c = "2down" /\ combo = lotteryResult.twoDown
    \/ c = "3down" /\ combo \in {lotteryResult.threeTod3, lotteryResult.threeTod4}

\* The places <<ticket, entry, item>> of all perComboTotals of the tickets.
C7_Places ==
    UNION {UNION {{<<t, e, i>> : i \in 1..Len(tickets[t].entries[e].perComboTotals)} :
                     e \in {k \in 1..Len(tickets[t].entries) :
                                "perComboTotals" \in DOMAIN tickets[t].entries[k]}} :
              t \in 1..Len(tickets)}

\* The places of the winning perComboTotals of non-deleted tickets.
C7_Winners ==
    {w \in C7_Places :
        /\ ~tickets[w[1]].deleted
        /\ C7_Wins(tickets[w[1]].entries[w[2]].category,
                   tickets[w[1]].entries[w[2]].perComboTotals[w[3]].combo)}

\* The payout of the item at place w.
C7_Amount(w) ==
    LET item == tickets[w[1]].entries[w[2]].perComboTotals[w[3]]
    IN item.payoutRate * item.unitPrice * item.quantity

\* The sum of the payouts of the places W.
RECURSIVE C7_Sum(_)
C7_Sum(W) ==
    IF W = {} THEN 0
    ELSE LET w == CHOOSE x \in W : TRUE IN C7_Amount(w) + C7_Sum(W \ {w})

\* C7: computeActualPayout is the sum of payoutRate * unitPrice * quantity
\* over exactly the perComboTotals of entries of non-deleted tickets that
\* win: 3top and 3tod on combo = threeTop, 2top on combo = the last two
\* digits of threeTop, 2down on combo = twoDown, 3down on combo = threeTod3
\* or threeTod4; combos of every other category never win and soft-deleted
\* tickets contribute nothing.
C7_PayoutIsSumOfWinners ==
    (actualPayout # NotComputed /\ lotteryResult # NoResult) =>
        actualPayout = C7_Sum(C7_Winners)

\* threeTop '123' and nothing else drawn: a soft-deleted 3top ticket on
\* '123' pays nothing, a live ticket with a 3back and a 3tod entry on '123'
\* pays the one winning 3tod combo.
C7_Witness ==
    /\ actualPayout # NotComputed /\ lotteryResult # NoResult
    /\ lotteryResult.threeTop = BetThree
    /\ lotteryResult.twoDown = Undefined /\ lotteryResult.threeTod3 = Undefined
    /\ Len(tickets) = 2
    /\ tickets[1].deleted /\ tickets[1].entries[1].category = "3top"
    /\ ~tickets[2].deleted /\ Len(tickets[2].entries) = 2
    /\ tickets[2].entries[1].category = "3back"
    /\ tickets[2].entries[2].category = "3tod"
    /\ actualPayout = 130 * MaxUnitPrice * MaxQuantity

\* ---------------------------------------------------------------------- C8
\* The positions of the entry's perComboTotals that isWin accepts.
C8_WinningItems ==
    {i \in 1..Len(computed.perComboTotals) :
        isWin(computed.perComboTotals[i].combo, "3tod", lotteryResult)}

\* C8: a 3tod entry that computeEntryTotals produced from raw r has a
\* winning combo iff threeTop is a reordering of the digits of r; then
\* exactly one of its perComboTotals wins and the entry contributes that
\* combo's payoutRate * unitPrice * quantity; otherwise it contributes 0.
C8_TodWinsOnReordering ==
    (actualPayout # NotComputed /\ entry.category = "3tod") =>
        IF lotteryResult.threeTop # Undefined
           /\ IsReordering(lotteryResult.threeTop, entry.raw)
        THEN /\ Cardinality(C8_WinningItems) = 1
             /\ \A i \in C8_WinningItems :
                   /\ computed.perComboTotals[i].combo = lotteryResult.threeTop
                   /\ actualPayout = computed.perComboTotals[i].payoutRate
                                         * entry.unitPrice * entry.quantity
        ELSE /\ C8_WinningItems = {}
             /\ actualPayout = 0

\* A 3tod entry on '123' and the draw '321', a reordering that is not raw
\* and whose combo has the override 50: the entry pays that combo alone.
C8_Witness ==
    /\ actualPayout # NotComputed /\ entry.category = "3tod"
    /\ entry.raw = <<1, 2, 3>> /\ lotteryResult.threeTop = <<3, 2, 1>>
    /\ Len(blockedNumbers) = 1 /\ blockedNumbers[1].payoutOverride = 50
    /\ Len(computed.perComboTotals) = 6
    /\ actualPayout = 50 * entry.unitPrice * entry.quantity

\* ---------------------------------------------------------------------- C9
\* C9: tod and back bets win if the drawn number is any reordering of the
\* bet's digits: a 2tod or 2back entry on r contributes a payout when the
\* last two digits of threeTop are a reordering of r, a 3back entry on r
\* when threeTop is a reordering of r.
C9_TodAndBackWinOnReordering ==
    (actualPayout # NotComputed /\ lotteryResult.threeTop # Undefined) =>
        /\ (entry.category \in {"2tod", "2back"}
            /\ IsReordering(SliceLast(lotteryResult.threeTop, 2), entry.raw))
           => actualPayout > 0
        /\ (entry.category = "3back"
            /\ IsReordering(lotteryResult.threeTop, entry.raw))
           => actualPayout > 0

\* --------------------------------------------------------------------- C10
\* C10: the winning numbers are derived from firstPrize: for a result that
\* carries firstPrize but no threeTop, a 3top combo equal to the last 3
\* digits of firstPrize and a 2top combo equal to the last 2 digits of
\* firstPrize both win.
C10_WinningNumbersFromFirstPrize ==
    (actualPayout # NotComputed
        /\ lotteryResult.firstPrize # Undefined
        /\ lotteryResult.threeTop = Undefined) =>
        /\ (entry.category = "3top"
            /\ entry.raw = SliceLast(lotteryResult.firstPrize, 3))
           => actualPayout = 800 * entry.unitPrice * entry.quantity
        /\ (entry.category = "2top"
            /\ entry.raw = SliceLast(lotteryResult.firstPrize, 2))
           => actualPayout = 70 * entry.unitPrice * entry.quantity

\* --------------------------------------------------------------------- C11
\* C11: findRiskyNumbers returns exactly one element for each pair
\* (category, combo) whose soldAmount summed over the non-deleted tickets
\* is strictly greater than threshold, with that sum and the threshold in
\* it, and orders the result by soldAmount descending; a sum equal to the
\* threshold is not returned and categories are summed separately.
C11_RiskyAreThePairsAboveThreshold ==
    riskyNumbers # NotCalled =>
        LET r == riskyNumbers.value
        IN /\ {<<r[i].category, r[i].combo>> : i \in 1..Len(r)}
                  = {q \in SoldPairs(tickets) : SoldOn(tickets, q[1], q[2]) > threshold}
           /\ \A i, j \in 1..Len(r) :
                  (r[i].category = r[j].category /\ r[i].combo = r[j].combo) => i = j
           /\ \A i \in 1..Len(r) :
                  /\ r[i].soldAmount = SoldOn(tickets, r[i].category, r[i].combo)
                  /\ r[i].threshold = threshold
           /\ \A i, j \in 1..Len(r) : i < j => r[i].soldAmount >= r[j].soldAmount

\* Threshold 2; a ticket with '123' at 2 under 3top and under 3tod, and a
\* ticket with '321' at 1 under 3tod: the six 3tod buckets hold 3 and are
\* risky, the 3top bucket holds exactly 2 and is not.
C11_Witness ==
    /\ riskyNumbers # NotCalled /\ threshold = 2
    /\ Len(tickets) = 2
    /\ ~tickets[1].deleted /\ Len(tickets[1].entries) = 2
    /\ tickets[1].entries[1].total = 2
    /\ ~tickets[2].deleted /\ tickets[2].entries[1].category = "3tod"
    /\ tickets[2].entries[1].raw = Reverse(BetThree)
    /\ tickets[2].entries[1].unitPrice = 1
    /\ Len(riskyNumbers.value) = 6
    /\ \A i \in 1..6 : /\ riskyNumbers.value[i].category = "3tod"
                        /\ riskyNumbers.value[i].soldAmount = 3

\* --------------------------------------------------------------------- C12
\* The amount on the i-th combo of newEntry once it is sold: what the
\* non-deleted tickets hold for (newEntry.category, combo) plus its own.
C12_Amount(i) ==
    SoldOn(tickets, newEntry.category, newEntry.perComboTotals[i].combo)
    + newEntry.perComboTotals[i].soldAmount

\* The positions of the combos of newEntry that go over perComboMax.
C12_Over ==
    IF "perComboTotals" \notin DOMAIN newEntry THEN {}
    ELSE {i \in 1..Len(newEntry.perComboTotals) :
             C12_Amount(i) > settings.ceilings.perComboMax}

\* The state part of C12: the value checkCeilingViolation returns.
C12_Returned ==
    violation # NotCalled =>
        IF C12_Over = {} THEN violation.value = Null
        ELSE LET i == CHOOSE k \in C12_Over : \A j \in C12_Over : k <= j
             IN violation.value =
                    [violated |-> TRUE,
                     combo |-> newEntry.perComboTotals[i].combo,
                     currentAmount |-> C12_Amount(i),
                     maxAmount |-> settings.ceilings.perComboMax]

\* C12: checkCeilingViolation returns a violation for the first combo of
\* newEntry.perComboTotals whose amount already sold in non-deleted tickets
\* plus its own soldAmount is strictly greater than perComboMax, with that
\* sum as currentAmount and perComboMax as maxAmount, and null when no combo
\* goes over (a sum equal to perComboMax is no violation); the call changes
\* neither the tickets nor the new entry.
C12_FirstComboOverCeiling ==
    /\ []C12_Returned
    /\ [][violation' # violation => (tickets' = tickets /\ newEntry' = newEntry)]_vars

\* '23' with its reverse at 1 under ceiling 2, '32' already sold for 2 and
\* '23' for 1: '23' reaches exactly 2 and passes, '32' is the violation.
C12_Witness ==
    /\ violation # NotCalled /\ settings.ceilings.perComboMax = 2
    /\ Len(tickets) = 2
    /\ "perComboTotals" \in DOMAIN newEntry
    /\ Len(newEntry.perComboTotals) = 2 /\ newEntry.category = "2top"
    /\ C12_Amount(1) = 2
    /\ violation.value # Null
    /\ violation.value.combo = Reverse(BetTwo)
    /\ violation.value.currentAmount = 3

\* --------------------------------------------------------------------- C13
\* The places <<ticket, entry, number>> that getNumberTotals has to count:
\* the expanded numbers of the non-deleted tickets dated exactly `date`.
C13_Places ==
    UNION {UNION {{<<t, e, i>> : i \in 1..Len(expandedOrRaw(tickets[t].entries[e]))} :
                     e \in 1..Len(tickets[t].entries)} :
              t \in {k \in 1..Len(tickets) : ~tickets[k].deleted /\ tickets[k].date = date}}

C13_Category(w) == tickets[w[1]].entries[w[2]].category

C13_Number(w) == expandedOrRaw(tickets[w[1]].entries[w[2]])[w[3]]

\* The amount counted on (c, num): per place the soldAmount of the combo,
\* the unit price for an entry without perComboTotals.
C13_Total(c, num) ==
    SumOfFn([w \in {v \in C13_Places : C13_Category(v) = c /\ C13_Number(v) = num} |->
                LET e == tickets[w[1]].entries[w[2]]
                IN IF "perComboTotals" \in DOMAIN e
                   THEN e.perComboTotals[w[3]].soldAmount
                   ELSE e.unitPrice])

\* C13: getNumberTotals counts only the non-deleted tickets whose date is
\* exactly `date`, keeps one record per (category, number) over the
\* entries' expanded numbers, and every record of the returned map has
\* exceedsCeiling = (totalAmount >= perNumberMax): a total equal to
\* perNumberMax is flagged, one below is not.
C13_NumberTotalsInclusiveCeiling ==
    numberTotals # NotCalled =>
        LET m == numberTotals.value
        IN /\ {<<m[i].value.category, m[i].value.number>> : i \in 1..Len(m)}
                  = {<<C13_Category(w), C13_Number(w)>> : w \in C13_Places}
           /\ \A i, j \in 1..Len(m) :
                  (m[i].value.category = m[j].value.category
                   /\ m[i].value.number = m[j].value.number) => i = j
           /\ \A i \in 1..Len(m) :
                  /\ m[i].value.totalAmount
                         = C13_Total(m[i].value.category, m[i].value.number)
                  /\ m[i].value.exceedsCeiling
                         = (m[i].value.totalAmount >= perNumberMax)

\* perNumberMax 2: '123' under 3top sold for 2 on the draw day and for 1
\* the day before: one record, total 2, flagged at exactly the ceiling.
C13_Witness ==
    /\ numberTotals # NotCalled /\ perNumberMax = 2
    /\ Len(tickets) = 2
    /\ ~tickets[1].deleted /\ tickets[1].date = date
    /\ tickets[1].entries[1].category = "3top" /\ tickets[1].entries[1].unitPrice = 2
    /\ ~tickets[2].deleted /\ tickets[2].date = DayBefore
    /\ tickets[2].entries[1].category = "3top" /\ tickets[2].entries[1].unitPrice = 1
    /\ Len(numberTotals.value) = 1
    /\ numberTotals.value[1].value.totalAmount = 2
    /\ numberTotals.value[1].value.exceedsCeiling

C15_WorstCaseLiability ==
    summary # NotCalled =>
        LET F == FilterTickets(tickets, date, round, tzWest)
        IN /\ summary.gross = SumOfFn([i \in 1..Len(F) |-> F[i].billTotal])
           /\ summary.expectedPayout =
                  SumOfFn([w \in LivePlaces(F) |->
                              LET item == F[w[1]].entries[w[2]].perComboTotals[w[3]]
                              IN item.payoutRate * item.unitPrice * item.quantity])
           /\ summary.profit = summary.gross - summary.expectedPayout

\* One retained ticket with a 3tod entry on '123' at unit price 1: six
\* combos at rate 130 give the expected payout 780 against a gross of 1.
C15_Witness ==
    /\ summary # NotCalled
    /\ Len(tickets) = 1 /\ summary.ticketCount = 1
    /\ tickets[1].entries[1].category = "3tod"
    /\ Len(tickets[1].entries[1].perComboTotals) = 6
    /\ summary.gross = 1
    /\ summary.expectedPayout = 6 * 130
    /\ summary.profit = 1 - 780

\* --------------------------------------------------------------------- C16
\* The retained tickets of agent a.
C16_Of(a) == {t \in Retained : tickets[t].agentId = a}

\* The name the agents list gives to the id a.
C16_Name(a) ==
    IF \E i \in 1..Len(agents) : agents[i].id = a
    THEN agents[CHOOSE i \in 1..Len(agents) :
                    agents[i].id = a /\ \A j \in 1..(i - 1) : agents[j].id # a].name
    ELSE "Unknown"

\* C16: computeSummary.perAgent has exactly one AgentSummary per distinct
\* agentId of the retained tickets, with gross, expectedPayout and
\* ticketCount summed over that agent's retained tickets, profit = gross -
\* expectedPayout, agentName from the agents list or 'Unknown', ordered by
\* gross descending; the per-agent figures add up to the top-level ones.
C16_PerAgentPartition ==
    summary # NotCalled =>
        LET pa == summary.perAgent
        IN /\ {pa[i].agentId : i \in 1..Len(pa)} = {tickets[t].agentId : t \in Retained}
           /\ \A i, j \in 1..Len(pa) : pa[i].agentId = pa[j].agentId => i = j
           /\ \A i \in 1..Len(pa) :
                  /\ pa[i].gross = GrossOver(C16_Of(pa[i].agentId))
                  /\ pa[i].expectedPayout = ExpectedOver(C16_Of(pa[i].agentId))
                  /\ pa[i].ticketCount = Cardinality(C16_Of(pa[i].agentId))
                  /\ pa[i].profit = pa[i].gross - pa[i].expectedPayout
                  /\ pa[i].agentName = C16_Name(pa[i].agentId)
           /\ \A i, j \in 1..Len(pa) : i < j => pa[i].gross >= pa[j].gross
           /\ SumOfFn([i \in 1..Len(pa) |-> pa[i].gross]) = summary.gross
           /\ SumOfFn([i \in 1..Len(pa) |-> pa[i].expectedPayout]) = summary.expectedPayout
           /\ SumOfFn([i \in 1..Len(pa) |-> pa[i].ticketCount]) = summary.ticketCount

\* Tickets of the unlisted agent9, of agent2 and of agent1 in that order:
\* three summaries, agent2 with the highest gross first, agent9 'Unknown'.
C16_Witness ==
    /\ summary # NotCalled
    /\ Len(tickets) = 3
    /\ tickets[1].agentId = "agent9" /\ tickets[2].agentId = "agent2"
    /\ tickets[3].agentId = "agent1"
    /\ Len(summary.perAgent) = 3
    /\ summary.perAgent[1].agentId = "agent2"
    /\ summary.perAgent[1].gross > summary.perAgent[2].gross
    /\ \E i \in 2..3 : /\ summary.perAgent[i].agentId = "agent9"
                        /\ summary.perAgent[i].agentName = "Unknown"

\* C17: the bill total of the ticket recomputeTicket returns equals
\* computeTicketTotal of it, the sum of the totals of its entries; and every
\* ticket saved by saveCurrentTicket, after any sequence of addEntry,
\* updateEntry and removeEntry, carries the sum of the totals of its entries.
C17_SumOfEntryTotals(t) ==
    SumOfFn([i \in 1..Len(t.entries) |->
                IF "total" \in DOMAIN t.entries[i] THEN t.entries[i].total ELSE 0])

\* C17: a recomputed or saved ticket's bill total is the sum of its entries'
\* totals.
C17_BillTotalIsSumOfTotals ==
    /\ recomputed.ok =>
          /\ recomputed.value.billTotal = computeTicketTotal(recomputed.value)
          /\ recomputed.value.billTotal = C17_SumOfEntryTotals(recomputed.value)
    /\ \A i \in 1..Len(storeTickets) :
          storeTickets[i].billTotal = C17_SumOfEntryTotals(storeTickets[i])

\* A ticket of two entries with different totals was saved in the session,
\* and a ticket whose bill total changes was recomputed.
C17_Witness ==
    /\ Len(storeTickets) = 3
    /\ Len(storeTickets[3].entries) = 2
    /\ storeTickets[3].entries[1].total # storeTickets[3].entries[2].total
    /\ storeTickets[3].billTotal > 0
    /\ recomputed.ok
    /\ recomputed.value.billTotal # pastTicket.billTotal

\* The input fields of the entry e.
C18_Inputs(e) ==
    [id |-> e.id, category |-> e.category, raw |-> e.raw,
     unitPrice |-> e.unitPrice, quantity |-> e.quantity]

\* Entry i of the recomputed ticket t is what computeEntryTotals yields from
\* the input fields of entry i of the past ticket p.
C18_Repriced(t, p, i) ==
    LET x == computeEntryTotals(C18_Inputs(p.entries[i]), settings, blockedNumbers)
    IN /\ x.ok
       /\ DOMAIN t.entries[i] = DOMAIN x \ {"ok"}
       /\ t.entries[i].expanded = x.expanded
       /\ t.entries[i].perComboTotals = x.perComboTotals
       /\ t.entries[i].total = x.total
       /\ C18_Inputs(t.entries[i]) = C18_Inputs(p.entries[i])

\* C18: the ticket recomputeTicket returns has every entry re-priced by
\* computeEntryTotals under the settings and blocked numbers of the call,
\* whatever was stored on it; the ticket's other fields and the entries'
\* order, ids and input fields are unchanged; and recomputing the result
\* under the same configuration returns it again.
C18_RecomputeReprices ==
    recomputed.ok =>
        LET t == recomputed.value
        IN /\ DOMAIN t = DOMAIN pastTicket
           /\ \A f \in DOMAIN pastTicket \ {"entries", "billTotal"} : t[f] = pastTicket[f]
           /\ Len(t.entries) = Len(pastTicket.entries)
           /\ \A i \in 1..Len(t.entries) : C18_Repriced(t, pastTicket, i)
           /\ recomputeTicket(t, settings, blockedNumbers) = recomputed

\* A ticket that carries a payout rate of an earlier configuration and a
\* reverse expansion was recomputed, and neither survived.
C18_Witness ==
    /\ recomputed.ok
    /\ Len(pastTicket.entries) = 2
    /\ "perComboTotals" \in DOMAIN pastTicket.entries[1]
    /\ pastTicket.entries[1].perComboTotals[1].payoutRate
           # recomputed.value.entries[1].perComboTotals[1].payoutRate
    /\ pastTicket.entries[2].expanded # recomputed.value.entries[2].expanded

\* The positions of the entries of es with the category and raw of e.
C19_SameKey(es, e) ==
    {i \in 1..Len(es) : es[i].category = e.category /\ es[i].raw = e.raw}

\* The first position in es of the category and raw of e.
C19_First(es, e) ==
    CHOOSE i \in C19_SameKey(es, e) : \A j \in C19_SameKey(es, e) : i <= j

\* The computed total of e, 0 when it has none.
C19_Total(e) == IF "total" \in DOMAIN e THEN e.total ELSE 0

C20_AllComputed(e) ==
    \A i \in C19_SameKey(entryList, e) : "total" \in DOMAIN entryList[i]

\* C20: the total of an entry mergeDuplicateEntries produces from entries
\* computed by computeEntryTotals equals the total computeEntryTotals gives
\* the merged entry from its summed quantity, and so the total of the entry
\* addEntry leaves when the second bet is entered after the first with
\* mergeDuplicates enabled.
C20_MergeEqualsRecompute ==
    merged.ok =>
        /\ \A j \in 1..Len(merged.value) :
              C20_AllComputed(merged.value[j]) =>
                  merged.value[j].total =
                      computeEntryTotals(C18_Inputs(merged.value[j]),
                                         settings, blockedNumbers).total
        /\ (/\ Len(entryList) = 2
            /\ Len(merged.value) = 1
            /\ C20_AllComputed(merged.value[1])
            /\ settings.mergeDuplicates)
           => merged.value[1].total =
                  addEntry(<<entryList[1]>>, entryList[2].category, entryList[2].raw,
                           entryList[2].unitPrice, entryList[2].quantity, FALSE,
                           settings, blockedNumbers)[1].total

\* ---------------------------------------------------------------------- C21
\* The digit length the category c requires.
C21_Length(c) == IF c \in {"3top", "3tod", "3down", "3back"} THEN 3 ELSE 2

\* r is empty or has a character that is not a digit.
C21_NotNumeric(r) == r = <<>> \/ \E i \in 1..Len(r) : r[i] \notin 0..9

\* C21: expandNumber rejects a raw that is empty or has a non-digit character
\* with the format error, and an all-digit raw of another length than the
\* category's with the length error; the format error wins when both apply,
\* the two errors differ, and neither comes with combos.
C21_ValidatesBeforeExpanding ==
    expanded # NotCalled =>
        /\ C21_NotNumeric(raw) => expanded = [ok |-> FALSE, error |-> "InvalidFormat"]
        /\ (~C21_NotNumeric(raw) /\ Len(raw) # C21_Length(category)) =>
              expanded = [ok |-> FALSE, error |-> "InvalidLength"]
        /\ ~expanded.ok => "combos" \notin DOMAIN expanded
        /\ expanded.ok <=> (~C21_NotNumeric(raw) /\ Len(raw) = C21_Length(category))

\* A raw with a letter and of the wrong length was rejected with the format
\* error.
C21_Witness ==
    /\ expanded # NotCalled
    /\ raw # <<>> /\ C21_NotNumeric(raw) /\ Len(raw) # C21_Length(category)
    /\ expanded.error = "InvalidFormat"

\* ---------------------------------------------------------------------- C22
\* computeEntryTotals on a mistyped bet raises the validation error and
\* returns no entry.
C22_NoPartialEntry ==
    \A bet \in StoreBets :
        ~IsValidRaw(bet[2], bet[1]) =>
            LET x == computeEntryTotals([id |-> 1, category |-> bet[1], raw |-> bet[2],
                                         unitPrice |-> MaxUnitPrice, quantity |-> 1],
                                        settings, blockedNumbers)
            IN ~x.ok /\ DOMAIN x = {"ok", "error"}
                     /\ x.error \in {"InvalidFormat", "InvalidLength"}

\* recomputeTicket on a ticket with an invalid entry raises and returns no
\* ticket.
C22_NoPartialTicket ==
    (recomputed # NotCalled
       /\ \E i \in 1..Len(pastTicket.entries) :
              ~IsValidRaw(pastTicket.entries[i].raw, pastTicket.entries[i].category)) =>
        ~recomputed.ok /\ "value" \notin DOMAIN recomputed

\* A call of addEntry with an invalid raw leaves the entries as they were.
C22_AddEntryRejects ==
    \A bet \in StoreBets, withReverse \in BOOLEAN :
        (~IsValidRaw(bet[2], bet[1]) /\ AddEntryOf(bet, withReverse)) =>
            currentTicket'.entries = currentTicket.entries

\* C22: a validation failure yields and stores nothing: computeEntryTotals on
\* an invalid raw raises and returns no entry, recomputeTicket on a ticket
\* with an invalid entry raises and returns no ticket, and addEntry with an
\* invalid raw leaves currentTicket.entries exactly as it was.
C22_NoPartialResult ==
    /\ [](C22_NoPartialEntry /\ C22_NoPartialTicket)
    /\ [][C22_AddEntryRejects]_vars

\* ---------------------------------------------------------------------- C23
\* C23: for every category and every raw valid for it, getExpansionCount
\* returns the length of the list expandNumber returns.
C23_CountIsExpansionLength ==
    (expanded # NotCalled /\ expansionCount # NotCalled /\ IsValidRaw(raw, category)) =>
        /\ expanded.ok
        /\ expansionCount.value = Len(expanded.combos)

\* A 3tod raw with exactly two different digits was expanded and counted: 3.
C23_Witness ==
    /\ category = "3tod" /\ IsValidRaw(raw, category) /\ DistinctDigits(raw) = 2
    /\ expanded # NotCalled /\ expanded.ok
    /\ expansionCount # NotCalled /\ expansionCount.value = 3
    /\ Len(expanded.combos) = 3

\* ---------------------------------------------------------------------- C24
\* The dates of the period anchored at a, by the draw schedule: from the 18th
\* of the month before to the 1st for an anchor on the 1st, the 2nd to the
\* 17th for an anchor on the 16th, none for any other anchor.
C24_Schedule(dt, a) ==
    IF a.d = 1
    THEN \/ (dt.d >= 18 /\ (IF a.m = 1 THEN dt.y = a.y - 1 /\ dt.m = 12
                                      ELSE dt.y = a.y /\ dt.m = a.m - 1))
         \/ (dt.d = 1 /\ dt.y = a.y /\ dt.m = a.m)
    ELSE IF a.d = 16
    THEN dt.y = a.y /\ dt.m = a.m /\ dt.d \in 2..17
    ELSE FALSE

\* C24: isDateInDrawPeriod is true exactly for the dates the draw schedule
\* puts in the period of the anchor: the 18th of the month before to the 1st
\* for an anchor on the 1st, the 2nd to the 17th for an anchor on the 16th,
\* and no date for an anchor on another day.
C24_InPeriodIsSchedule ==
    inPeriod # NotCalled => (inPeriod.value <=> C24_Schedule(date, selectedPeriod))

\* ---------------------------------------------------------------------- C25
\* C25: in the store, after any sequence of initCurrentTicket, addEntry (with
\* or without withReverse), updateEntry and removeEntry under fixed settings
\* and blocked numbers, every entry of currentTicket.entries has the
\* expanded, perComboTotals and total that computeEntryTotals gives its
\* category, raw, unitPrice and quantity.
C25_DerivedFieldsFollowInputs ==
    currentTicket # Null =>
        \A i \in 1..Len(currentTicket.entries) :
            LET e == currentTicket.entries[i]
                x == computeEntryTotals(C18_Inputs(e), settings, blockedNumbers)
            IN /\ x.ok
               /\ e.expanded = x.expanded
               /\ e.perComboTotals = x.perComboTotals
               /\ e.total = x.total

\* ---------------------------------------------------------------------- C26
\* C26: for every category and every raw valid for it, raw is a member of
\* expandNumber(raw, category), every member is a digit string of the
\* category's length, and expanding any member under the same category
\* returns the same list.
C26_ExpansionIsClosed ==
    (expanded # NotCalled /\ IsValidRaw(raw, category)) =>
        /\ expanded.ok
        /\ \E i \in 1..Len(expanded.combos) : expanded.combos[i] = raw
        /\ \A i \in 1..Len(expanded.combos) :
              /\ IsValidRaw(expanded.combos[i], category)
              /\ expandNumber(expanded.combos[i], category) = expanded

\* A 3tod raw that is not the first of its three reorderings was expanded.
C26_Witness ==
    /\ category = "3tod" /\ IsValidRaw(raw, category)
    /\ expanded # NotCalled /\ expanded.ok
    /\ Len(expanded.combos) = 3
    /\ expanded.combos[1] # raw
    /\ expandNumber(expanded.combos[1], category) = expanded

\* ---------------------------------------------------------------------- C27
\* The anchors dated the 1st or the 16th of a month of the years around the
\* ticket dates.
C27_Anchors == {Date(y, m, d) : y \in 2023..2026, m \in 1..12, d \in {1, 16}}

\* C27: every date belongs to exactly one draw period, an anchor on the 1st
\* or the 16th for which isDateInDrawPeriod is true, and that period is the
\* one calculateDrawPeriod and getCurrentDrawPeriod assign to the date.
C27_PeriodsPartitionCalendar ==
    (assignedPeriod # NotCalled /\ currentPeriod # NotCalled) =>
        LET owners == {a \in C27_Anchors : isDateInDrawPeriod(date, a, tzWest)}
        IN /\ owners = {assignedPeriod.value.id}
           /\ owners = {currentPeriod.value.id}

\* ---------------------------------------------------------------------- C28
\* The expected payout of the non-deleted tickets.
C28_Expected ==
    SumOfFn([t \in {k \in 1..Len(tickets) : ~tickets[k].deleted} |->
                computeTicketExpectedPayout(tickets[t])])

\* The actual payouts of the tickets, each taken alone.
C28_Alone ==
    [t \in 1..Len(tickets) |-> computeActualPayout(<<tickets[t]>>, lotteryResult)]

\* C28: computeActualPayout never exceeds the sum of
\* computeTicketExpectedPayout over the non-deleted tickets, and the payout
\* of the whole list is the sum of the payouts of each ticket taken alone.
C28_ActualWithinExpected ==
    actualPayout # NotComputed =>
        /\ actualPayout <= C28_Expected
        /\ actualPayout = SumOfFn(C28_Alone)

\* Two live tickets both won, and the payout is below the expected payout.
C28_Witness ==
    /\ actualPayout # NotComputed
    /\ Len(tickets) = 2
    /\ ~tickets[1].deleted /\ ~tickets[2].deleted
    /\ C28_Alone[1] > 0 /\ C28_Alone[2] > 0
    /\ C28_Alone[1] # C28_Alone[2]
    /\ actualPayout < C28_Expected

\* ---------------------------------------------------------------------- C29
\* C29: in every interleaving of local writes with pushLocalChanges, each
\* item ever queued is still in the queue or was committed to the remote,
\* and a failed batch commit leaves the queue unchanged.
C29_NoQueuedChangeLost ==
    /\ [](\A i \in 1..itemCount : i \in syncQueue \/ i \in remote)
    /\ [][PushCommitFails => syncQueue' = syncQueue]_vars

\* ---------------------------------------------------------------------- C30
\* Two ticket lists hold the same tickets: the same ids with the same contents.
C30_SameTickets(a, b) == Len(a) = Len(b) /\ SeqToSet(a) = SeqToSet(b)

C30_Bounded == Len(undoStack) <= UndoLimit

\* A handler that records an action on a full stack drops the oldest one.
C30_DropsOldest ==
    (Len(undoStack) = UndoLimit /\ ~Undo /\ undoStack' # undoStack)
        => /\ Len(undoStack') = UndoLimit
           /\ popUndo(undoStack') = Tail(undoStack)

C30_UndoOnEmpty ==
    (Undo /\ undoStack = <<>>)
        => /\ undoResult' = Returned(FALSE)
           /\ UNCHANGED <<storeTickets, dbTickets, undoStack>>

C30_UndoReverts ==
    (Undo /\ undoStack # <<>>)
        => /\ undoResult' = Returned(TRUE)
           /\ undoStack' = popUndo(undoStack)
           /\ C30_SameTickets(storeTickets', undoBefore[Len(undoBefore)])

\* C30: after any sequence of createTicket, updateTicket, deleteTicket and
\* undo the undo stack holds at most 10 actions, the oldest being dropped
\* when an 11th is pushed; undo on an empty stack returns false and changes
\* nothing; otherwise undo removes exactly the most recent action from the
\* stack and leaves the local ticket list with the ids and contents it had
\* before that action.
C30_UndoIsBoundedLifo ==
    /\ []C30_Bounded
    /\ [][C30_DropsOldest /\ C30_UndoOnEmpty /\ C30_UndoReverts]_vars

\* An action was recorded on a full stack and then undone.
C30_Witness ==
    /\ undoResult = Returned(TRUE)
    /\ Len(undoStack) = UndoLimit - 1
    /\ steps >= 2
    /\ \E i \in 1..Len(undoStack) : undoStack[i].type = "DELETE_TICKET"

====
